---- MODULE Spec2Model ----
(***************************************************************************)
(* Session / credit / coin engine of the captive-portal gateway            *)
(* (src/src/app.js): the coin-aggregation window (currentCoinUser), the    *)
(* rate planner (calculateTimeFromRates), the users table, the countdown   *)
(* loop and the portal request handlers.                                   *)
(***************************************************************************)
EXTENDS Integers, Sequences, FiniteSets, TLC

(***************************************************************************)
(* Bounds of the model                                                     *)
(***************************************************************************)
MaxPlanAmount == 13    \* largest amount handed to the planner in PlanSpec
MaxPending == 2        \* largest pendingAmount a coin session accumulates
MaxCredit == 180       \* largest time_remaining a user accumulates
MaxUsers == 2          \* largest row id of the users table
MaxSales == 2          \* largest number of rows the sales table holds
ClockStep == 15        \* seconds by which the observed time advances
MaxAge == 90           \* the age of a coin session is counted up to here

Null == "null"          \* a null string (MAC, IP, client id, source)
NullRec == [null |-> TRUE]   \* a null object (row, coin session, result)
NullSpeed == 0          \* a null upload_speed / download_speed
SecondsPerMinute == 60  \* secondsToAdd = minutesToAdd * 60

(***************************************************************************)
(* Rate table.  A rate line is a row of table `rates`.                     *)
(***************************************************************************)
Rate(i, a, m, ul, dl) ==
    [id |-> i, amount |-> a, minutes |-> m, upload_speed |-> ul, download_speed |-> dl]

\* The table of scenario S1: 1 peso -> 1 min, 5 -> 7, 10 -> 15.
RatesS1 == {Rate(1, 1, 1, 1024, 5120), Rate(2, 5, 7, 2048, 5120), Rate(3, 10, 15, 2048, 10240)}
\* A table on which largest-first is not the best exact fit (6 = 3 + 3).
RatesGreedyGap == {Rate(1, 1, 1, 1024, 5120), Rate(2, 3, 10, 1024, 5120), Rate(3, 4, 11, 2048, 5120)}
\* Tables without an amount = 1 line.
RatesNoBase == {Rate(1, 5, 7, 1024, 5120)}
RatesNoBase2 == {Rate(1, 3, 4, 1024, 5120), Rate(2, 5, 7, 2048, 10240)}
\* Small tables used with the coin session.
RatesSmall == {Rate(1, 1, 1, 1024, 5120), Rate(2, 2, 3, 2048, 10240)}
RatesSmallNoBase == {Rate(1, 2, 3, 2048, 10240)}
\* A table whose smallest line is the fastest one.
RatesFastSmall == {Rate(1, 1, 1, 4096, 10240), Rate(2, 5, 7, 1024, 5120)}

PlanRateTables == {RatesS1, RatesGreedyGap, RatesNoBase, RatesNoBase2, RatesFastSmall, {}}
CoinRateTables == {RatesSmall, RatesSmallNoBase}

\* Client / device identifiers.  "7" is a value for which
\* Number.isInteger(Number(deviceId)) is true; cookies are hex strings.
ClientIds == {"c1", "7"}
NumericIds == {"7"}

\* Rows of sub_vendo_device_rates for one device: rate id -> visible flag.
\* NoDeviceRates: the device has no rows.
NoDeviceRates == {}
DeviceRatesVisible1 == {[rate_id |-> 1, visible |-> 1], [rate_id |-> 2, visible |-> 0]}
DeviceRateConfigs == {NoDeviceRates, DeviceRatesVisible1}

\* Network identities.  getMacFromIp answers with the neighbour table's
\* spelling of the MAC; formatMac lower-cases it.
MACs == {"m1", "m2"}
RawMacs == MACs \cup {"M1"}   \* "M1" is m1 as the neighbour table may spell it
IPs == {"ip1", "ip2"}

\* Coin sources: the local slot and one remote sub-device.
Sources == {"hardware", "subvendo:A"}

VARIABLES
    rates,                  \* table rates
    sub_vendo_device_rates, \* rows of sub_vendo_device_rates of device "7"
    sub_vendo_devices,      \* table sub_vendo_devices: the registered device ids
    last_active_at,         \* sub_vendo_devices.last_active_at of device "A":
                            \* "registered" (the stamp of its INSERT) or "heard" (a later one)
    users,                  \* table users: a set of rows
    access_control,         \* table access_control: MAC -> failed attempts, ban
    currentCoinUser,        \* the open coin session, or NullRec
    coinTimeout,            \* delay of the armed session timer, 0 when none
    tickPc,                 \* countdownLoop: "idle", "loop" (awaiting the statistics), "block"
    tickDelta,              \* countdownLoop: deltaSeconds of the running tick
    tickUsers,              \* countdownLoop: its snapshot `users`
    tickIdx,                \* countdownLoop: position of the for loop in the snapshot
    lastTickLag,            \* seconds before the running tick's `now` that lastTick lies behind
    authorized,             \* MACs with a MARK rule in chain internet_users
    sales,                  \* table sales: the rows in insertion order
    coinClock,              \* seconds since the session timer was armed
    coinAge,                \* seconds since the last accepted /api/coin/start
    bootPc,                 \* startup: "init" (services starting), "restore" (in the
                            \* loop over the active users), "done"
    bootUsers,              \* startup: the rows of `activeUsers` not yet restored
    allowPending,           \* MACs of commits whose awaited allowUser has not run yet
    relay,                  \* the last hardwareService.setRelay: "on", "off", or
                            \* "unset" when it was never called
    roamPending,            \* the middleware of a roaming request that awaits
                            \* blockUser(old MAC): its rows and request, or NullRec
    planIn,                 \* PlanSpec: the planner call under test
    planOut                 \* PlanSpec: its result, or NullRec

coinVars == <<currentCoinUser, coinTimeout, coinClock, coinAge, relay>>
bootVars == <<bootPc, bootUsers>>
tickVars == <<tickPc, tickDelta, tickUsers, tickIdx, lastTickLag>>
vars == <<rates, sub_vendo_device_rates, sub_vendo_devices, users, access_control, currentCoinUser,
          coinTimeout, tickPc, tickDelta, tickUsers, tickIdx, planIn, planOut,
          lastTickLag, authorized, sales, coinClock, coinAge, last_active_at,
          bootPc, bootUsers, allowPending, relay, roamPending>>

(***************************************************************************)
(* calculateTimeFromRates (greedy, largest denomination first)             *)
(***************************************************************************)
\* (mutant) the rows ordered by amount ascending
RateBeforeAsc(x, y) ==
    \/ x.amount < y.amount
    \/ x.amount = y.amount /\ x.id <= y.id

\* ORDER BY CAST(amount AS INTEGER) DESC, minutes DESC (row id breaks ties)
RateBefore(x, y) ==
    \/ x.amount > y.amount
    \/ x.amount = y.amount /\ x.minutes > y.minutes
    \/ x.amount = y.amount /\ x.minutes = y.minutes /\ x.id <= y.id

RECURSIVE SortRatesDesc(_)
SortRatesDesc(S) ==
    IF S = {} THEN <<>>
    ELSE LET r == CHOOSE x \in S : \A y \in S : RateBefore(x, y)
         IN  <<r>> \o SortRatesDesc(S \ {r})

\* The rows the planner reads: the device's visible lines when the device id
\* is an integer and has any row in sub_vendo_device_rates, else the table.
UseDeviceRates(deviceId, devRates) ==
    deviceId /= Null /\ deviceId \in NumericIds /\ devRates /= {}

PlannerRates(rs, deviceId, devRates) ==
    IF UseDeviceRates(deviceId, devRates)
    THEN {r \in rs : \E v \in devRates : v.rate_id = r.id /\ v.visible = 1}
    ELSE rs

\* The greedy loop over the sorted rows, from row i on.
RECURSIVE GreedyLoop(_, _, _, _, _)
GreedyLoop(sorted, i, remainingAmount, totalMinutes, maxRateUsed) ==
    IF i > Len(sorted)
    THEN [remainingAmount |-> remainingAmount, totalMinutes |-> totalMinutes,
          maxRateUsed |-> maxRateUsed]
    ELSE LET rate == sorted[i] IN
         IF remainingAmount >= rate.amount
         THEN LET count == remainingAmount \div rate.amount IN
              GreedyLoop(sorted, i + 1,
                         remainingAmount - count * rate.amount,
                         totalMinutes + count * rate.minutes,
                         IF maxRateUsed = NullRec THEN rate ELSE maxRateUsed)
         ELSE GreedyLoop(sorted, i + 1, remainingAmount, totalMinutes, maxRateUsed)

PlanResult(minutes, rate) ==
    [minutes |-> minutes,
     upload_speed |-> IF rate = NullRec THEN NullSpeed ELSE rate.upload_speed,
     download_speed |-> IF rate = NullRec THEN NullSpeed ELSE rate.download_speed]

calculateTimeFromRates(rs, devRates, amount, deviceId) ==
    LET visible == PlannerRates(rs, deviceId, devRates)
        sorted == SortRatesDesc(visible)
        g == GreedyLoop(sorted, 1, amount, 0, NullRec)
    IN  IF g.remainingAmount > 0 /\ \E r \in visible : r.amount = 1
        THEN LET baseRate == sorted[CHOOSE k \in 1..Len(sorted) :
                                      /\ sorted[k].amount = 1
                                      /\ \A j \in 1..(k - 1) : sorted[j].amount /= 1]
             IN  PlanResult(g.totalMinutes + g.remainingAmount * baseRate.minutes,
                            IF g.maxRateUsed = NullRec THEN baseRate ELSE g.maxRateUsed)
        ELSE PlanResult(g.totalMinutes, g.maxRateUsed)

(***************************************************************************)
(* computeBestRateForAmount (exact-fit dynamic programme; no caller)       *)
(***************************************************************************)
NegInf == -1   \* stands for -Infinity: every real total is >= 0

RECURSIVE bestMinutes(_, _)
bestMinutes(rs, a) ==
    IF a = 0 THEN 0
    ELSE LET cands == {bestMinutes(rs, a - r.amount) + r.minutes :
                         r \in {x \in rs : /\ x.amount > 0 /\ x.minutes > 0
                                            /\ x.amount <= a
                                            /\ bestMinutes(rs, a - x.amount) /= NegInf}}
         IN  IF cands = {} THEN NegInf
             ELSE CHOOSE c \in cands : \A d \in cands : c >= d

computeBestRateForAmount(rs, totalAmount) ==
    IF totalAmount <= 0 \/ rs = {} THEN 0
    ELSE IF bestMinutes(rs, totalAmount) /= NegInf THEN bestMinutes(rs, totalAmount)
    ELSE IF \E r \in rs : r.amount = 1
         THEN totalAmount * (CHOOSE r \in rs : r.amount = 1 /\ \A q \in rs : q.amount = 1 => RateBefore(q, r) \/ q = r).minutes
         ELSE 0


(***************************************************************************)
(* Helpers over table users                                                *)
(***************************************************************************)
formatMac(mac) == IF mac = "M1" THEN "m1" ELSE mac

\* statement.get(): the first row (lowest row id) of a result set, or NullRec
FirstRow(rows) ==
    IF rows = {} THEN NullRec
    ELSE CHOOSE u \in rows : \A v \in rows : u.id <= v.id

\* INSERT: the new row id is one more than the largest row id
NextUserId(us) ==
    IF us = {} THEN 1
    ELSE (CHOOSE u \in us : \A v \in us : u.id >= v.id).id + 1

\* UPDATE users SET <Set(row)> WHERE <Where(row)>
UpdateUsers(us, Where(_), Set(_)) ==
    {IF Where(u) THEN Set(u) ELSE u : u \in us}

UserRow(id, mac, ip, clientId, seconds, code) ==
    [id |-> id, mac_address |-> mac, ip_address |-> ip, client_id |-> clientId,
     time_remaining |-> seconds, is_paused |-> 0, is_connected |-> 1,
     user_code |-> code]

\* generateUniqueUserCode: a code no row holds; one code per row id suffices
generateUniqueUserCode(us, id) == id

(***************************************************************************)
(* Session middleware (identity resolution, IP sync), app.use               *)
(***************************************************************************)
\* (mutant) the cookie's user keeps its stored MAC
MiddlewareCookieKeepsMac(us, clientId, mac) ==
    [users |-> us, user |-> FirstRow({u \in us : u.client_id = clientId})]

\* Step 1: the cookie's user, and MAC roaming.  Result: the table and req.user.
MiddlewareCookie(us, clientId, mac) ==
    LET user == FirstRow({u \in us : u.client_id = clientId}) IN
    IF user /= NullRec /\ mac /= Null /\ user.mac_address /= mac
    THEN LET existingMacUser == FirstRow({u \in us : u.mac_address = mac}) IN
         IF /\ existingMacUser /= NullRec
            /\ existingMacUser.id /= user.id
            /\ existingMacUser.time_remaining > 0
         THEN [users |-> us, user |-> existingMacUser]
         ELSE LET kept == IF existingMacUser /= NullRec
                          THEN us \ {existingMacUser} ELSE us
                  moved == [user EXCEPT !.mac_address = mac]
              IN  [users |-> UpdateUsers(kept, LAMBDA u : u.id = user.id,
                                         LAMBDA u : [u EXCEPT !.mac_address = mac]),
                   user |-> moved]
    ELSE [users |-> us, user |-> user]

\* Step 2: fall back to the MAC, linking the cookie to the row found.
MiddlewareMac(r, clientId, mac) ==
    IF r.user = NullRec /\ mac /= Null
    THEN LET user == FirstRow({u \in r.users : u.mac_address = mac}) IN
         IF user /= NullRec /\ user.client_id /= clientId
         THEN [users |-> UpdateUsers(r.users, LAMBDA u : u.id = user.id,
                                     LAMBDA u : [u EXCEPT !.client_id = clientId]),
               user |-> [user EXCEPT !.client_id = clientId]]
         ELSE [users |-> r.users, user |-> user]
    ELSE r

\* (mutant) the IP sync leaves the address on the other rows that hold it
MiddlewareSyncLeavesOthers(r, clientIp) ==
    LET user == r.user IN
    IF user = NullRec THEN r
    ELSE IF user.time_remaining > 0 /\ user.is_paused = 0
    THEN [users |-> UpdateUsers(r.users, LAMBDA u : u.id = user.id,
                                LAMBDA u : [u EXCEPT !.ip_address = clientIp,
                                                     !.is_connected = 1]),
          user |-> [user EXCEPT !.is_connected = 1]]
    ELSE [users |-> UpdateUsers(r.users, LAMBDA u : u.id = user.id,
                                LAMBDA u : [u EXCEPT !.is_connected = 0]),
          user |-> [user EXCEPT !.is_connected = 0]]

\* Step 3: an active unpaused user is allowed and its IP synced; any other
\* user is blocked and marked disconnected.
MiddlewareSync(r, clientIp) ==
    LET user == r.user IN
    IF user = NullRec THEN r
    ELSE IF user.time_remaining > 0 /\ user.is_paused = 0
    THEN LET synced ==
                 IF user.ip_address /= clientIp
                 THEN UpdateUsers(
                        UpdateUsers(r.users,
                                    LAMBDA u : u.ip_address = clientIp /\ u.id /= user.id,
                                    LAMBDA u : [u EXCEPT !.ip_address = Null]),
                        LAMBDA u : u.id = user.id,
                        LAMBDA u : [u EXCEPT !.ip_address = clientIp])
                 ELSE r.users
             marked ==
                 IF user.is_connected = 0
                 THEN UpdateUsers(synced, LAMBDA u : u.id = user.id,
                                  LAMBDA u : [u EXCEPT !.is_connected = 1, !.is_paused = 0])
                 ELSE synced
         IN  [users |-> marked,
              user |-> IF user.is_connected = 0
                       THEN [user EXCEPT !.is_connected = 1, !.is_paused = 0]
                       ELSE user]
    ELSE IF user.is_connected /= 0
         THEN [users |-> UpdateUsers(r.users, LAMBDA u : u.id = user.id,
                                     LAMBDA u : [u EXCEPT !.is_connected = 0]),
               user |-> [user EXCEPT !.is_connected = 0]]
         ELSE r

\* The middleware: [users |-> the table after it, user |-> req.user]
Middleware(us, clientId, clientIp, rawMac) ==
    LET mac == formatMac(rawMac) IN
    MiddlewareSync(MiddlewareMac(MiddlewareCookie(us, clientId, mac), clientId, mac),
                   clientIp)

\* networkService.allowUser: iptables -C, then -A when the rule is missing
allowUser(auth, mac) == auth \cup {mac}

\* (mutant) the rule of the MAC is left in place
blockUserKeepsRule(auth, mac) == auth

\* networkService.blockUser: iptables -D until no rule is left
blockUser(auth, mac) == auth \ {mac}

\* The cookie's user takes over the observed MAC (no active row owns it)
MiddlewareClaimsMac(us, clientId, mac) ==
    LET user == FirstRow({u \in us : u.client_id = clientId})
        existingMacUser == FirstRow({u \in us : u.mac_address = mac})
    IN  /\ user /= NullRec /\ mac /= Null /\ user.mac_address /= mac
        /\ ~(/\ existingMacUser /= NullRec
              /\ existingMacUser.id /= user.id
              /\ existingMacUser.time_remaining > 0)

\* The middleware's calls on the firewall: the old MAC of a roaming user is
\* blocked; req.user is allowed when active and unpaused, blocked otherwise.
MiddlewareFirewall(auth, us, clientId, clientIp, rawMac) ==
    LET mac == formatMac(rawMac)
        roamed == IF MiddlewareClaimsMac(us, clientId, mac)
                  THEN blockUser(auth, FirstRow({u \in us : u.client_id = clientId}).mac_address)
                  ELSE auth
        user == MiddlewareMac(MiddlewareCookie(us, clientId, mac), clientId, mac).user
    IN  IF user = NullRec THEN roamed
        ELSE IF user.time_remaining > 0 /\ user.is_paused = 0
        THEN allowUser(roamed, user.mac_address)
        ELSE blockUser(roamed, user.mac_address)

(***************************************************************************)
(* Portal routes on the session: status, pause, resume, restore            *)
(***************************************************************************)
othersUnchanged ==
    UNCHANGED <<rates, sub_vendo_device_rates, sub_vendo_devices, planIn, planOut,
                last_active_at, bootVars, allowPending, roamPending>>

\* A portal request whose cookie user claims the observed MAC, up to
\* `await networkService.blockUser(user.mac_address)`: the middleware holds
\* the rows `user` and `existingMacUser` it has read
RoamBegins(clientId, clientIp, rawMac) ==
    LET mac == formatMac(rawMac) IN
    /\ roamPending = NullRec
    /\ MiddlewareClaimsMac(users, clientId, mac)
    /\ roamPending' = [user |-> FirstRow({u \in users : u.client_id = clientId}),
                       existingMacUser |-> FirstRow({u \in users : u.mac_address = mac}),
                       mac |-> mac, clientIp |-> clientIp]
    /\ UNCHANGED <<users, authorized, access_control, coinVars, tickVars, sales, rates,
                   sub_vendo_device_rates, sub_vendo_devices, planIn, planOut,
                   last_active_at, bootVars, allowPending>>

\* if (existingMacUser) DELETE FROM users WHERE id = existingMacUser.id
RoamDelete(us, existingMacUser) ==
    IF existingMacUser /= NullRec THEN {u \in us : u.id /= existingMacUser.id} ELSE us

\* The awaited blockUser returns and the middleware runs to its end: the
\* record read on the new MAC is deleted, the cookie user takes the MAC
\* (the UPDATE fails when another row holds it by now) and step 3 runs on
\* the row object read before the await
RoamCompletes ==
    /\ roamPending /= NullRec
    /\ LET p == roamPending
           kept == RoamDelete(users, p.existingMacUser)
           roamed == blockUser(authorized, p.user.mac_address)
           user == [p.user EXCEPT !.mac_address = p.mac]
           r == MiddlewareSync(
                    [users |-> UpdateUsers(kept, LAMBDA u : u.id = user.id,
                                           LAMBDA u : [u EXCEPT !.mac_address = p.mac]),
                     user |-> user],
                    p.clientIp)
       IN  IF \E u \in kept : u.mac_address = p.mac /\ u.id /= user.id
           THEN users' = kept /\ authorized' = roamed
           ELSE /\ users' = r.users
                /\ authorized' = IF user.time_remaining > 0 /\ user.is_paused = 0
                                 THEN allowUser(roamed, user.mac_address)
                                 ELSE blockUser(roamed, user.mac_address)
    /\ roamPending' = NullRec
    /\ UNCHANGED <<access_control, coinVars, tickVars, sales, rates,
                   sub_vendo_device_rates, sub_vendo_devices, planIn, planOut,
                   last_active_at, bootVars, allowPending>>

\* Any portal request that only passes the middleware (GET /api/status ...)
PortalRequest(clientId, clientIp, rawMac) ==
    /\ users' = Middleware(users, clientId, clientIp, rawMac).users
    /\ authorized' = MiddlewareFirewall(authorized, users, clientId, clientIp, rawMac)
    /\ UNCHANGED <<access_control, coinVars, tickVars, sales>>
    /\ othersUnchanged

\* (mutant) pause leaves the user marked connected
PauseHandlerKeepsConnected(r) ==
    IF r.user /= NullRec
    THEN UpdateUsers(r.users, LAMBDA u : u.id = r.user.id,
                     LAMBDA u : [u EXCEPT !.is_paused = 1])
    ELSE r.users

\* POST /api/session/pause
PauseHandler(r) ==
    IF r.user /= NullRec
    THEN UpdateUsers(r.users, LAMBDA u : u.id = r.user.id,
                     LAMBDA u : [u EXCEPT !.is_paused = 1, !.is_connected = 0])
    ELSE r.users

SessionPause(clientId, clientIp, rawMac) ==
    LET r == Middleware(users, clientId, clientIp, rawMac)
        fw == MiddlewareFirewall(authorized, users, clientId, clientIp, rawMac)
    IN  /\ users' = PauseHandler(r)
        /\ authorized' = IF r.user /= NullRec THEN blockUser(fw, r.user.mac_address) ELSE fw
        /\ UNCHANGED <<access_control, coinVars, tickVars, sales>>
    /\ othersUnchanged

\* POST /api/session/resume
ResumeHandler(r, clientIp) ==
    IF r.user /= NullRec
    THEN UpdateUsers(
           UpdateUsers(r.users, LAMBDA u : u.id = r.user.id,
                       LAMBDA u : [u EXCEPT !.is_paused = 0, !.ip_address = clientIp]),
           LAMBDA u : u.ip_address = clientIp /\ u.id /= r.user.id,
           LAMBDA u : [u EXCEPT !.ip_address = Null])
    ELSE r.users

SessionResume(clientId, clientIp, rawMac) ==
    LET r == Middleware(users, clientId, clientIp, rawMac)
        fw == MiddlewareFirewall(authorized, users, clientId, clientIp, rawMac)
    IN  /\ users' = ResumeHandler(r, clientIp)
        /\ authorized' = IF r.user /= NullRec THEN allowUser(fw, r.user.mac_address) ELSE fw
        /\ UNCHANGED <<access_control, coinVars, tickVars, sales>>
    /\ othersUnchanged

\* users.mac_address is unique: an UPDATE to a MAC another row holds throws
MacTaken(us, mac, id) == \E u \in us : u.mac_address = mac /\ u.id /= id

\* POST /api/session/restore.  [users |-> the table, result |-> the answer]
RestoreRoam(us, user, mac, deviceId, link) ==
    \* the row found moves to the observed MAC unless an active row owns it
    IF formatMac(user.mac_address) = mac THEN [users |-> us, user |-> user, result |-> "ok"]
    ELSE IF \E u \in us : u.mac_address = mac /\ u.id /= user.id /\ u.time_remaining > 0
    THEN [users |-> us, user |-> user, result |-> "conflict"]
    ELSE IF MacTaken(us, mac, user.id)
    THEN [users |-> us, user |-> user, result |-> "error"]
    ELSE LET cid == IF link /\ deviceId /= Null THEN deviceId ELSE user.client_id IN
         [users |-> UpdateUsers(us, LAMBDA u : u.id = user.id,
                                LAMBDA u : [u EXCEPT !.mac_address = mac, !.client_id = cid]),
          user |-> [user EXCEPT !.mac_address = mac, !.client_id = cid],
          result |-> "ok"]

\* The firewall calls of POST /api/session/restore on the table us the
\* middleware left: the old MAC of a moved row is blocked (in the code path
\* before the UPDATE that may throw), and the restored user is allowed.
RestoreFirewall(auth, us, code, deviceId, mac) ==
    IF mac = Null THEN auth
    ELSE
    LET byDevice == IF deviceId /= Null
                    THEN FirstRow({u \in us : u.client_id = deviceId}) ELSE NullRec
        byCode == IF byDevice = NullRec /\ code /= 0
                  THEN FirstRow({u \in us : u.user_code = code}) ELSE NullRec
        user == IF byDevice /= NullRec THEN byDevice ELSE byCode
    IN  IF user = NullRec THEN auth
        ELSE LET res == RestoreRoam(us, user, mac, deviceId, byDevice = NullRec)
                 moves == formatMac(user.mac_address) /= mac
                 blocked == IF moves /\ (res.result = "ok" \/
                                         (res.result = "error" /\ byDevice = NullRec))
                            THEN blockUser(auth, user.mac_address) ELSE auth
             IN  IF res.result = "ok" /\ res.user.time_remaining > 0
                 THEN allowUser(blocked, res.user.mac_address)
                 ELSE blocked

RestoreHandler(us, code, deviceId, ip, mac) ==
    IF mac = Null THEN [users |-> us, result |-> "no_mac"]
    ELSE
    LET byDevice == IF deviceId /= Null
                    THEN FirstRow({u \in us : u.client_id = deviceId}) ELSE NullRec
        byCode == IF byDevice = NullRec /\ code /= 0
                  THEN FirstRow({u \in us : u.user_code = code}) ELSE NullRec
        found == IF byDevice /= NullRec THEN RestoreRoam(us, byDevice, mac, deviceId, FALSE)
                 ELSE IF byCode /= NullRec THEN RestoreRoam(us, byCode, mac, deviceId, TRUE)
                 ELSE [users |-> us, user |-> NullRec, result |-> "invalid"]
    IN  IF found.result /= "ok" THEN [users |-> found.users, result |-> found.result]
        ELSE IF found.user.time_remaining <= 0
        THEN [users |-> found.users, result |-> "expired"]
        ELSE [users |-> UpdateUsers(found.users, LAMBDA u : u.id = found.user.id,
                                    LAMBDA u : [u EXCEPT !.ip_address = ip,
                                                         !.is_connected = 1,
                                                         !.is_paused = 0]),
              result |-> "ok"]

SessionRestore(clientId, clientIp, rawMac, code, deviceId) ==
    /\ users' = RestoreHandler(Middleware(users, clientId, clientIp, rawMac).users,
                               code, deviceId, clientIp, formatMac(rawMac)).users
    /\ authorized' =
          RestoreFirewall(MiddlewareFirewall(authorized, users, clientId, clientIp, rawMac),
                          Middleware(users, clientId, clientIp, rawMac).users,
                          code, deviceId, formatMac(rawMac))
    /\ UNCHANGED <<access_control, coinVars, tickVars, sales>>
    /\ othersUnchanged

(***************************************************************************)
(* countdownLoop                                                           *)
(***************************************************************************)
MaxDelta == 2      \* a tick sees 1..MaxDelta whole minutes elapsed

\* selectActiveUsers.all(), in row order
RECURSIVE RowsInOrder(_)
RowsInOrder(rows) ==
    IF rows = {} THEN <<>>
    ELSE LET u == FirstRow(rows) IN <<u>> \o RowsInOrder(rows \ {u})

selectActiveUsers(us) ==
    LET rows == RowsInOrder({u \in us : u.time_remaining > 0 /\ u.is_paused = 0}) IN
    [i \in 1..Len(rows) |->
        [id |-> rows[i].id, mac_address |-> rows[i].mac_address,
         ip_address |-> rows[i].ip_address, time_remaining |-> rows[i].time_remaining]]

\* (mutant) expiry only when the balance lands exactly on zero
TimeExpiredAtZero(newTime) == newTime = 0

\* if (newTime <= 0)
TimeExpired(newTime) == newTime <= 0

\* The for loop over the snapshot from row i on, up to the await that
\* follows an expiry: idx is the row whose blockUser is awaited, or past the
\* end when the loop is over.
RECURSIVE TickRun(_, _, _, _)
TickRun(us, snapshot, i, deltaSeconds) ==
    IF i > Len(snapshot) THEN [users |-> us, idx |-> i, awaiting |-> FALSE]
    ELSE LET user == snapshot[i]
             newTime == user.time_remaining - deltaSeconds
         IN  IF TimeExpired(newTime)
             THEN [users |-> UpdateUsers(us, LAMBDA u : u.id = user.id,
                                         LAMBDA u : [u EXCEPT !.time_remaining = 0,
                                                              !.is_connected = 0]),
                   idx |-> i, awaiting |-> TRUE]
             ELSE TickRun(UpdateUsers(us, LAMBDA u : u.id = user.id,
                                      LAMBDA u : [u EXCEPT !.time_remaining = newTime]),
                          snapshot, i + 1, deltaSeconds)

\* The tick reads its snapshot and awaits the traffic statistics.
\* deltaSeconds is the time since the previous tick began; lastTick lies
\* lastTickLag further back when that tick did not reach `lastTick = now`.
TickBegin(deltaSeconds) ==
    /\ tickPc = "idle"
    /\ lastTickLag + deltaSeconds >= 1
    /\ lastTickLag + deltaSeconds <= SecondsPerMinute * MaxDelta
    /\ tickPc' = "loop"
    /\ tickDelta' = lastTickLag + deltaSeconds
    /\ tickUsers' = selectActiveUsers(users)
    /\ tickIdx' = 1
    /\ UNCHANGED <<users, access_control, coinVars, lastTickLag, authorized, sales>>
    /\ othersUnchanged

\* The tick resumes after an await and runs to its next await or to its end.
\* At "block" the awaited blockUser of the expired row has removed its rule
\* (the removeLimit that follows has no state in this model).
TickLoop ==
    /\ tickPc \in {"loop", "block"}
    /\ LET blocking == tickPc = "block"
           r == TickRun(users, tickUsers, IF blocking THEN tickIdx + 1 ELSE tickIdx,
                        tickDelta)
       IN  /\ users' = r.users
           /\ authorized' = IF blocking
                            THEN blockUser(authorized, tickUsers[tickIdx].mac_address)
                            ELSE authorized
           /\ tickPc' = IF r.awaiting THEN "block" ELSE "idle"
           /\ tickIdx' = IF r.awaiting THEN r.idx ELSE 0
           /\ tickUsers' = IF r.awaiting THEN tickUsers ELSE <<>>
           /\ tickDelta' = IF r.awaiting THEN tickDelta ELSE 0
           /\ lastTickLag' = IF r.awaiting THEN lastTickLag ELSE 0
    /\ UNCHANGED <<access_control, coinVars, sales>>
    /\ othersUnchanged

\* The removeLimit awaited after the blockUser of an expired row rejects
\* (blockUser itself never rejects, and removeLimit is called for a row with
\* an address only): the catch logs the error, `lastTick = now` is skipped
\* and the next run is scheduled.
TickAbort ==
    /\ tickPc = "block"
    /\ tickUsers[tickIdx].ip_address /= Null
    /\ authorized' = blockUser(authorized, tickUsers[tickIdx].mac_address)
    /\ tickPc' = "idle"
    /\ lastTickLag' = tickDelta
    /\ tickDelta' = 0
    /\ tickUsers' = <<>>
    /\ tickIdx' = 0
    /\ UNCHANGED <<users, access_control, coinVars, sales>>
    /\ othersUnchanged

(***************************************************************************)
(* FailAttemptGate: voucher redeem failures and bans                       *)
(***************************************************************************)
BanCounter == 1          \* config ban_counter
MaxFailedAttempts == 1   \* the model stops counting failures here

NoBanRecord == [failed_attempts |-> 0, banned |-> FALSE]

\* banRecord && banRecord.banned_until && bannedUntil > new Date()
IsBanned(mac) == access_control[mac].banned

\* (mutant) a failure is counted whether or not the MAC is banned
RedeemAccessCountsBanned(ac, mac, success) ==
    IF success THEN [ac EXCEPT ![mac] = NoBanRecord]
    ELSE [ac EXCEPT ![mac] = [failed_attempts |-> @.failed_attempts + 1,
                              banned |-> @.failed_attempts + 1 >= BanCounter]]

\* POST /api/voucher/redeem on table access_control: a banned MAC is turned
\* away; a success resets the row; a failure is counted and bans the MAC
\* when the count reaches ban_counter
RedeemAccess(ac, mac, success) ==
    IF ac[mac].banned THEN ac
    ELSE IF success THEN [ac EXCEPT ![mac] = NoBanRecord]
    ELSE LET currentFailures == ac[mac].failed_attempts + 1 IN
         [ac EXCEPT ![mac] = [failed_attempts |-> currentFailures,
                              banned |-> currentFailures >= BanCounter]]

\* POST /api/voucher/redeem.  `success` is voucherService.redeemVoucher's
\* answer; the credit that service writes is outside this model.
VoucherRedeem(clientId, clientIp, rawMac, bodyMac, success) ==
    LET r == Middleware(users, clientId, clientIp, rawMac)
        mac == IF formatMac(rawMac) /= Null THEN formatMac(rawMac) ELSE bodyMac
        fw == MiddlewareFirewall(authorized, users, clientId, clientIp, rawMac)
    IN  /\ users' = r.users
        /\ IF mac = Null
           THEN UNCHANGED access_control /\ authorized' = fw
           ELSE /\ access_control' = RedeemAccess(access_control, mac, success)
                /\ access_control'[mac].failed_attempts <= MaxFailedAttempts
                /\ authorized' = IF ~IsBanned(mac) /\ success
                                 THEN allowUser(fw, mac) ELSE fw
        /\ UNCHANGED <<coinVars, tickVars, sales>>
        /\ othersUnchanged

\* Time passes banned_until
BanExpires(mac) ==
    /\ access_control[mac].banned
    /\ access_control' = [access_control EXCEPT ![mac].banned = FALSE]
    /\ UNCHANGED <<users, coinVars, tickVars, authorized, sales>>
    /\ othersUnchanged

(***************************************************************************)
(* Coin session: start, pulses, finalize                                   *)
(***************************************************************************)
VendoSelectionMode == "auto"   \* config vendo_selection_mode || 'auto'
StartTimeout == 60             \* setTimeout(..., 60000) of POST /api/coin/start
PulseTimeout == 30             \* setTimeout(..., 30000) of handleCoinPulseEvent
SubVendoKey == "k"             \* config sub_vendo_key
PulseCounts == {1, 2}

NoSourceAmounts == [s \in Sources |-> 0]

SumSourceAmounts(sa) == sa["hardware"] + sa["subvendo:A"]

\* (mutant) no busy check
CoinStartResultNoBusy(rawMac) ==
    LET mac == formatMac(rawMac) IN
    IF mac = Null THEN "no_mac"
    ELSE IF IsBanned(mac) THEN "banned"
    ELSE "ok"

\* (mutant) the busy check ahead of the ban check
CoinStartResultBusyFirst(rawMac) ==
    LET mac == formatMac(rawMac) IN
    IF mac = Null THEN "no_mac"
    ELSE IF currentCoinUser /= NullRec /\ formatMac(currentCoinUser.mac) /= mac THEN "busy"
    ELSE IF IsBanned(mac) THEN "banned"
    ELSE "ok"

\* The answer of POST /api/coin/start, decided before anything is written.
CoinStartResult(rawMac) ==
    LET mac == formatMac(rawMac) IN
    IF mac = Null THEN "no_mac"
    ELSE IF IsBanned(mac) THEN "banned"
    ELSE IF currentCoinUser /= NullRec /\ formatMac(currentCoinUser.mac) /= mac THEN "busy"
    ELSE "ok"

\* (mutant) the preserved amount is not entered in sourceAmounts
InitialSourceAmountsEmpty(pending) == NoSourceAmounts

\* sourceAmounts: {} and, if (pending > 0), sourceAmounts['hardware'] = pending
InitialSourceAmounts(pending) ==
    IF pending > 0 THEN [NoSourceAmounts EXCEPT !["hardware"] = pending]
    ELSE NoSourceAmounts

\* The session object POST /api/coin/start builds.
\* (mutant) a start always begins with nothing pending
PreservedPendingNone(cs, mac) == 0

\* Preserve pending amount if same user reconnects
PreservedPending(cs, mac) ==
    IF cs /= NullRec /\ formatMac(cs.mac) = mac THEN cs.pendingAmount ELSE 0

NewCoinUser(cs, ip, mac, clientId, targetDeviceId, bodyMode) ==
    LET pending == PreservedPending(cs, mac)
        mode == IF bodyMode \in {"auto", "manual"} THEN bodyMode ELSE VendoSelectionMode
    IN  [ip |-> ip, mac |-> mac, clientId |-> clientId,
         pendingAmount |-> pending,
         sourceAmounts |-> InitialSourceAmounts(pending),
         targetDeviceId |-> IF mode /= "manual" THEN Null
                            ELSE IF targetDeviceId = Null THEN "hardware"
                            ELSE targetDeviceId,
         selectionMode |-> mode]

\* (mutant) the relay is energized by every start
StartRelayAlways(mode, target) == "on"

\* if (mode === 'auto' || target === 'hardware') setRelay(true) else setRelay(false)
StartRelay(mode, target) ==
    IF mode = "auto" \/ target = "hardware" THEN "on" ELSE "off"

\* POST /api/coin/start
CoinStart(clientId, clientIp, rawMac, deviceId, targetDeviceId, bodyMode) ==
    /\ users' = Middleware(users, clientId, clientIp, rawMac).users
    /\ authorized' = MiddlewareFirewall(authorized, users, clientId, clientIp, rawMac)
    /\ IF CoinStartResult(rawMac) = "ok"
       THEN /\ currentCoinUser' =
                 NewCoinUser(currentCoinUser, clientIp, formatMac(rawMac),
                             IF deviceId /= Null THEN deviceId ELSE clientId,
                             targetDeviceId, bodyMode)
            /\ coinTimeout' = StartTimeout
            /\ coinClock' = 0
            /\ coinAge' = 0
            /\ relay' = StartRelay(currentCoinUser'.selectionMode,
                                   currentCoinUser'.targetDeviceId)
       ELSE UNCHANGED coinVars
    /\ UNCHANGED <<access_control, tickVars, sales>>
    /\ othersUnchanged

\* (mutant) no target filter in manual mode
PulseAcceptedAnySource(cs, source) == cs /= NullRec

\* handleCoinPulseEvent: the session after a pulse event, cs when it is dropped
PulseAccepted(cs, source) ==
    /\ cs /= NullRec
    /\ ~(cs.selectionMode = "manual" /\ cs.targetDeviceId /= Null
         /\ source /= cs.targetDeviceId)

handleCoinPulseEvent(cs, pulses, source) ==
    IF pulses <= 0 \/ ~PulseAccepted(cs, source) THEN cs
    ELSE [cs EXCEPT !.pendingAmount = @ + pulses,
                    !.sourceAmounts[source] = @ + pulses]

CoinPulse(pulses, source) ==
    /\ currentCoinUser /= NullRec => currentCoinUser.pendingAmount + pulses <= MaxPending
    /\ currentCoinUser' = handleCoinPulseEvent(currentCoinUser, pulses, source)
    /\ IF pulses > 0 /\ PulseAccepted(currentCoinUser, source)
       THEN coinTimeout' = PulseTimeout /\ coinClock' = 0
       ELSE UNCHANGED <<coinTimeout, coinClock>>
    /\ UNCHANGED <<users, access_control, tickVars, coinAge, relay, authorized, sales>>
    /\ UNCHANGED <<rates, sub_vendo_device_rates, sub_vendo_devices, planIn, planOut,
                   bootVars, allowPending, roamPending>>

\* coinService.on('coin'): the local slot
HardwarePulse(pulseCount) ==
    /\ CoinPulse(pulseCount, "hardware")
    /\ UNCHANGED last_active_at

\* (mutant) any key passes
SubVendoStatusAnyKey(masterKey, key, device_id) ==
    IF device_id = Null THEN 400 ELSE 200

\* The checks both sub-device routes start with: HTTP status 403 when no
\* key is configured, 401 on another key, 400 without a device id
SubVendoStatus(masterKey, key, device_id) ==
    IF masterKey = Null THEN 403
    ELSE IF masterKey /= key THEN 401
    ELSE IF device_id = Null THEN 400
    ELSE 200

\* POST /api/subvendo/auth: registers the device or stamps its row
SubVendoAuth(key, device_id) ==
    /\ IF SubVendoStatus(SubVendoKey, key, device_id) = 200
       THEN /\ sub_vendo_devices' = sub_vendo_devices \cup {device_id}
            /\ last_active_at' = IF device_id \in sub_vendo_devices
                                 THEN "heard" ELSE "registered"
       ELSE UNCHANGED <<sub_vendo_devices, last_active_at>>
    /\ UNCHANGED <<users, access_control, coinVars, tickVars, authorized, sales,
                   rates, sub_vendo_device_rates, planIn, planOut, bootVars, allowPending, roamPending>>

\* POST /api/subvendo/pulse (peso_per_pulse at its default, 1)
SubVendoPulse(key, device_id, pulses) ==
    IF /\ SubVendoStatus(SubVendoKey, key, device_id) = 200
       /\ pulses > 0 /\ pulses <= 200
       /\ device_id \in sub_vendo_devices
    THEN /\ last_active_at' = "heard"
         /\ CoinPulse(pulses * 1, "subvendo:A")
    ELSE UNCHANGED vars

\* (mutant) the balance is overwritten instead of added to
NewTimeRemainingOverwrite(time_remaining, secondsToAdd) == secondsToAdd

\* SET time_remaining = time_remaining + ?
NewTimeRemaining(time_remaining, secondsToAdd) == time_remaining + secondsToAdd

\* (mutant) a session without coins is committed like any other
NothingInsertedNever(amount) == FALSE

\* if (amount <= 0): the session ends without a commit
NothingInserted(amount) == amount <= 0

\* The sales rows of a commit: one per source that contributed an amount.
\* Object.entries visits the sources in their order of first arrival; the
\* model lists the local acceptor first.
SourceOrder == <<"hardware", "subvendo:A">>

\* (mutant) a commit writes no sales row
SaleRowsNone(cs) == <<>>

\* for (const [src, amt] of Object.entries(sources)) if (amt > 0) insertSale.run
SaleRows(cs) ==
    LET present == SelectSeq(SourceOrder, LAMBDA src : cs.sourceAmounts[src] > 0)
    IN  [i \in 1..Len(present) |->
            [amount |-> cs.sourceAmounts[present[i]],
             mac_address |-> formatMac(cs.mac),
             source |-> present[i]]]

\* (mutant) the new rows take the place of the ledger
ReplaceSales(ledger, rows) == rows

\* (mutant) the rows of a commit are not in the ledger when the credit is written
AppendSalesLater(ledger, rows) == ledger

\* INSERT INTO sales: the rows are added after the rows of the ledger
AppendSales(ledger, rows) == ledger \o rows

\* finalizeCoinSession after the session was cleared: the table it leaves,
\* its answer, the sales rows it writes and whether it allows the MAC
finalizeCoinSession(us, cs) ==
    LET mac == formatMac(cs.mac)
        amount == cs.pendingAmount
        best == calculateTimeFromRates(rates, sub_vendo_device_rates, amount, cs.clientId)
        secondsToAdd == best.minutes * SecondsPerMinute
        user == FirstRow({u \in us : u.mac_address = mac})
        newId == NextUserId(us)
    IN  IF NothingInserted(amount)
        THEN [users |-> us, secondsAdded |-> 0, success |-> TRUE,
              sales |-> <<>>, allowed |-> FALSE]
        ELSE IF secondsToAdd <= 0
        THEN [users |-> us, secondsAdded |-> 0, success |-> FALSE,
              sales |-> SaleRows(cs), allowed |-> FALSE]
        ELSE IF user /= NullRec
        THEN [users |-> UpdateUsers(us, LAMBDA u : u.id = user.id,
                 LAMBDA u : [u EXCEPT !.time_remaining = NewTimeRemaining(@, secondsToAdd),
                                      !.is_paused = 0,
                                      !.user_code = IF @ = 0
                                                    THEN generateUniqueUserCode(us, u.id)
                                                    ELSE @,
                                      !.ip_address = IF cs.ip /= Null THEN cs.ip ELSE @,
                                      !.client_id = cs.clientId,
                                      !.is_connected = 1]),
              secondsAdded |-> secondsToAdd, success |-> TRUE,
              sales |-> SaleRows(cs), allowed |-> TRUE]
        ELSE [users |-> us \cup {UserRow(newId, mac, cs.ip, cs.clientId, secondsToAdd,
                                         generateUniqueUserCode(us, newId))},
              secondsAdded |-> secondsToAdd, success |-> TRUE,
              sales |-> SaleRows(cs), allowed |-> TRUE]

\* The model's caps on the users table and on the ledger
WithinBounds(us) ==
    \A u \in us : u.id <= MaxUsers /\ u.time_remaining <= MaxCredit

\* (mutant) the commit writes its rows and leaves the session open
FinalizeWritesKeepsSession(us) ==
    LET f == finalizeCoinSession(us, currentCoinUser)
    IN  /\ users' = f.users
        /\ WithinBounds(users')
        /\ sales' = AppendSales(sales, f.sales)
        /\ Len(sales') <= MaxSales
        /\ UNCHANGED coinVars

\* The session ends: the timer, the relay and the session are cleared first,
\* then the sales rows and the user row are written
FinalizeWrites(us) ==
    LET f == finalizeCoinSession(us, currentCoinUser)
    IN  /\ users' = f.users
        /\ WithinBounds(users')
        /\ sales' = AppendSales(sales, f.sales)
        /\ Len(sales') <= MaxSales
        /\ currentCoinUser' = NullRec
        /\ coinTimeout' = 0
        /\ coinClock' = 0
        /\ coinAge' = 0
        /\ relay' = "off"

\* finalizeCoinSession taken in one step with the allowUser it awaits
FinalizeFrom(us, auth) ==
    /\ FinalizeWrites(us)
    /\ authorized' = IF finalizeCoinSession(us, currentCoinUser).allowed
                     THEN allowUser(auth, formatMac(currentCoinUser.mac))
                     ELSE auth

\* finalizeCoinSession up to `await networkService.allowUser`: the writes
\* are done, the rule of the MAC is still to be added
FinalizeBegins(us, auth) ==
    /\ FinalizeWrites(us)
    /\ authorized' = auth
    /\ allowPending' = IF finalizeCoinSession(us, currentCoinUser).allowed
                       THEN allowPending \cup {formatMac(currentCoinUser.mac)}
                       ELSE allowPending

Finalize ==
    /\ currentCoinUser /= NullRec
    /\ FinalizeFrom(users, authorized)

\* POST /api/coin/done
CoinDone(clientId, clientIp, rawMac) ==
    LET r == Middleware(users, clientId, clientIp, rawMac)
        fw == MiddlewareFirewall(authorized, users, clientId, clientIp, rawMac)
        mac == formatMac(rawMac)
    IN  /\ IF mac = Null \/ currentCoinUser = NullRec
              \/ formatMac(currentCoinUser.mac) /= mac
           THEN users' = r.users /\ authorized' = fw /\ UNCHANGED <<coinVars, sales>>
           ELSE FinalizeFrom(r.users, fw)
        /\ UNCHANGED <<access_control, tickVars>>
        /\ othersUnchanged

\* POST /api/coin/done up to the await of the commit
CoinDoneBegins(clientId, clientIp, rawMac) ==
    LET r == Middleware(users, clientId, clientIp, rawMac)
        fw == MiddlewareFirewall(authorized, users, clientId, clientIp, rawMac)
        mac == formatMac(rawMac)
    IN  /\ IF mac = Null \/ currentCoinUser = NullRec
              \/ formatMac(currentCoinUser.mac) /= mac
           THEN users' = r.users /\ authorized' = fw
                /\ UNCHANGED <<coinVars, sales, allowPending>>
           ELSE FinalizeBegins(r.users, fw)
        /\ UNCHANGED <<access_control, tickVars, rates, sub_vendo_device_rates,
                       sub_vendo_devices, planIn, planOut, last_active_at, bootVars, roamPending>>

\* The awaited allowUser of a commit runs and the commit completes
CommitAllows(mac) ==
    /\ mac \in allowPending
    /\ authorized' = allowUser(authorized, mac)
    /\ allowPending' = allowPending \ {mac}
    /\ UNCHANGED <<users, access_control, coinVars, tickVars, sales, rates,
                   sub_vendo_device_rates, sub_vendo_devices, planIn, planOut,
                   last_active_at, bootVars, roamPending>>

\* The session timer fires: finalizeCoinSession('timeout')
CoinTimeout ==
    /\ coinTimeout /= 0
    /\ Finalize
    /\ UNCHANGED <<access_control, tickVars>>
    /\ othersUnchanged

\* The session timer fires, up to the await of the commit
CoinTimeoutBegins ==
    /\ coinTimeout /= 0
    /\ currentCoinUser /= NullRec
    /\ FinalizeBegins(users, authorized)
    /\ UNCHANGED <<access_control, tickVars, rates, sub_vendo_device_rates,
                   sub_vendo_devices, planIn, planOut, last_active_at, bootVars, roamPending>>

\* (mutant) a timer that is never due
CoinTimerNeverDue ==
    /\ coinClock > coinTimeout
    /\ CoinTimeout

\* The timer fires when its delay has elapsed (specifications that count time)
CoinTimerFires ==
    /\ coinClock = coinTimeout
    /\ CoinTimeout

\* Time passes while a session is open, at most until the timer is due
Min(a, b) == IF a <= b THEN a ELSE b
Elapse ==
    /\ currentCoinUser /= NullRec
    /\ coinClock < coinTimeout
    /\ LET d == Min(ClockStep, coinTimeout - coinClock)
       IN  /\ coinClock' = coinClock + d
           /\ coinAge' = Min(coinAge + d, MaxAge)
    /\ UNCHANGED <<users, access_control, currentCoinUser, coinTimeout, relay, tickVars,
                   authorized, sales>>
    /\ othersUnchanged

\* Row id of a registered sub-device: device "A" is row 7 of sub_vendo_devices
SubVendoRowId(device_id) == "7"

\* POST /api/coin-inserted: a coin credited to the MAC of the payload at once
CoinInserted(clientId, clientIp, rawMac, pulses, mac_address, device_id) ==
    LET r == Middleware(users, clientId, clientIp, rawMac)
        fw == MiddlewareFirewall(authorized, users, clientId, clientIp, rawMac)
        amount == pulses
        mac == formatMac(mac_address)
        svDevice == device_id /= Null /\ device_id \in sub_vendo_devices
        source == IF svDevice THEN "subvendo:A" ELSE "hardware"
        best == calculateTimeFromRates(rates, sub_vendo_device_rates, amount,
                                       IF svDevice THEN SubVendoRowId(device_id) ELSE Null)
        secondsToAdd == best.minutes * SecondsPerMinute
        user == FirstRow({u \in r.users : u.mac_address = mac})
        newId == NextUserId(r.users)
    IN  /\ IF mac = Null \/ amount <= 0
           THEN users' = r.users /\ authorized' = fw /\ UNCHANGED sales
           ELSE /\ sales' = AppendSales(sales, <<[amount |-> amount, mac_address |-> mac,
                                                   source |-> source]>>)
                /\ Len(sales') <= MaxSales
                /\ IF secondsToAdd <= 0
                   THEN users' = r.users /\ authorized' = fw
                   ELSE /\ users' =
                             IF user /= NullRec
                             THEN UpdateUsers(r.users, LAMBDA u : u.id = user.id,
                                    LAMBDA u : [u EXCEPT
                                       !.time_remaining = NewTimeRemaining(@, secondsToAdd),
                                       !.is_paused = 0,
                                       !.is_connected = 1])
                             ELSE r.users \cup {UserRow(newId, mac, Null, Null,
                                                        secondsToAdd, 0)}
                        /\ WithinBounds(users')
                        /\ authorized' = allowUser(fw, mac)
        /\ UNCHANGED <<access_control, coinVars, tickVars>>
        /\ othersUnchanged

\* POST /api/admin/system/reset: systemService.factoryReset()
FactoryReset(clientId, clientIp, rawMac) ==
    /\ sales' = <<>>
    /\ users' = {}
    /\ authorized' = MiddlewareFirewall(authorized, users, clientId, clientIp, rawMac)
    /\ UNCHANGED <<access_control, coinVars, tickVars>>
    /\ othersUnchanged

(***************************************************************************)
(* Startup: the initialisation that runs beside server.listen              *)
(***************************************************************************)
\* SELECT mac_address, ip_address ... WHERE time_remaining > 0 AND is_paused = 0
selectRestoreUsers(us) ==
    LET rows == RowsInOrder({u \in us : u.time_remaining > 0 /\ u.is_paused = 0}) IN
    [i \in 1..Len(rows) |->
        [mac_address |-> rows[i].mac_address, ip_address |-> rows[i].ip_address]]

\* The services have started; the active users are read
BootSelect ==
    /\ bootPc = "init"
    /\ bootUsers' = selectRestoreUsers(users)
    /\ bootPc' = IF bootUsers' = <<>> THEN "done" ELSE "restore"
    /\ UNCHANGED <<users, access_control, coinVars, tickVars, authorized, sales,
                   rates, sub_vendo_device_rates, sub_vendo_devices, last_active_at,
                   planIn, planOut, allowPending, roamPending>>

\* One turn of the loop: await allowUser(user.mac_address) (and setLimit)
BootRestore ==
    /\ bootPc = "restore"
    /\ authorized' = allowUser(authorized, Head(bootUsers).mac_address)
    /\ bootUsers' = Tail(bootUsers)
    /\ bootPc' = IF bootUsers' = <<>> THEN "done" ELSE "restore"
    /\ UNCHANGED <<users, access_control, coinVars, tickVars, sales,
                   rates, sub_vendo_device_rates, sub_vendo_devices, last_active_at,
                   planIn, planOut, allowPending, roamPending>>

(***************************************************************************)
(* Spec: the engine                                                        *)
(***************************************************************************)
Init ==
    /\ rates \in CoinRateTables
    /\ sub_vendo_device_rates \in DeviceRateConfigs
    /\ sub_vendo_devices = {"A"}
    /\ last_active_at = "registered"
    /\ bootPc = "done"
    /\ bootUsers = <<>>
    /\ allowPending = {}
    /\ roamPending = NullRec
    /\ users = {}
    /\ access_control = [m \in MACs |-> NoBanRecord]
    /\ currentCoinUser = NullRec
    /\ coinTimeout = 0
    /\ tickPc = "idle"
    /\ tickDelta = 0
    /\ tickUsers = <<>>
    /\ tickIdx = 0
    /\ lastTickLag = 0
    /\ authorized = {}
    /\ sales = <<>>
    /\ coinClock = 0
    /\ coinAge = 0
    /\ relay = "unset"
    /\ planIn = NullRec
    /\ planOut = NullRec

\* The requests the model sends: what the portal observes of a client, its
\* cookie, its address and the neighbour table's MAC for that address.
Client(c, ip, m) == [clientId |-> c, ip |-> ip, rawMac |-> m]
Clients ==
    {Client("c1", "ip1", "M1"),    \* a device
     Client("7", "ip1", "m2"),     \* another device, on the address of the first
     Client("c1", "ip2", "m2"),    \* the first cookie on another MAC and address
     Client("c1", "ip1", Null)}    \* a request whose MAC cannot be resolved
TwoClients == {Client("c1", "ip1", "M1"), Client("7", "ip1", "m2")}
OneClient == {Client("c1", "ip1", "M1")}

\* Body of POST /api/coin/start: deviceId, targetDeviceId, selectionMode
StartBodies ==
    {<<Null, Null, "">>, <<"7", Null, "auto">>, <<Null, Null, "manual">>,
     <<Null, "hardware", "manual">>, <<"7", "subvendo:A", "manual">>}
PlainStart == {<<Null, Null, "">>}
GateStarts == {<<Null, Null, "">>, <<Null, "subvendo:A", "manual">>}

\* Body of POST /api/session/restore: code, deviceId
RestoreBodies == ((0..MaxUsers) \X {Null}) \cup {<<0, "c1">>, <<0, "7">>}

\* Portal requests on the session, from the clients K
SessionNext(K) ==
    \E k \in K :
       \/ PortalRequest(k.clientId, k.ip, k.rawMac)
       \/ SessionPause(k.clientId, k.ip, k.rawMac)
       \/ SessionResume(k.clientId, k.ip, k.rawMac)
       \/ \E b \in RestoreBodies :
             SessionRestore(k.clientId, k.ip, k.rawMac, b[1], b[2])

\* The coin session, opened by the clients K with the bodies B
CoinNext(K, B, Pulses) ==
    \/ \E k \in K :
          \/ CoinDone(k.clientId, k.ip, k.rawMac)
          \/ \E b \in B : CoinStart(k.clientId, k.ip, k.rawMac, b[1], b[2], b[3])
    \/ \E n \in Pulses : HardwarePulse(n)
    \/ CoinTimeout

SubVendoNext(Pulses) ==
    \E key \in {SubVendoKey, "bad"} :
       \/ \E n \in Pulses : SubVendoPulse(key, "A", n)
       \/ SubVendoAuth(key, "A")

TickNext ==
    \/ \E d \in 1..MaxDelta : TickBegin(SecondsPerMinute * d)
    \/ TickLoop
    \/ TickAbort

\* Coins reported by POST /api/coin-inserted for the MACs Macs
InsertNext(K, Pulses, Macs) ==
    \E k \in K, n \in Pulses, m \in Macs :
        CoinInserted(k.clientId, k.ip, k.rawMac, n, m, Null)

GateNext(K) ==
    \/ \E k \in K, ok \in BOOLEAN :
          VoucherRedeem(k.clientId, k.ip, k.rawMac, Null, ok)
    \/ \E m \in MACs : BanExpires(m)

\* One price table, no per-device rows
PlainInit ==
    /\ Init
    /\ rates = RatesSmall
    /\ sub_vendo_device_rates = NoDeviceRates

\* Spec: identity resolution and the session routes, with coin commits
Next == SessionNext(Clients) \/ CoinNext(Clients, PlainStart, {1})
Spec == PlainInit /\ [][Next]_vars

\* CoinSpec: the coin aggregator, every start body and both sources, on the
\* price table that has a line for one peso
CoinSpecNext == CoinNext(TwoClients, StartBodies, PulseCounts) \/ SubVendoNext(PulseCounts)
CoinInit == Init /\ rates = RatesSmall
CoinSpec == CoinInit /\ [][CoinSpecNext]_vars

\* GateSpec: the coin aggregator behind the fail-attempt gate
GateSpecNext == CoinNext(TwoClients, GateStarts, {1}) \/ GateNext(TwoClients)
GateSpec == PlainInit /\ [][GateSpecNext]_vars

\* TickSpec: the countdown loop interleaved with the session routes, the
\* commits of one client and the coins reported for another MAC
TickSpecNext ==
    \/ TickNext
    \/ SessionNext(OneClient)
    \/ CoinNext(OneClient, PlainStart, {1})
    \/ InsertNext(OneClient, {2}, {"m2"})
TickSpec == PlainInit /\ [][TickSpecNext]_vars

\* TimedSpec: one coin session with its timer and the time that passes.
\* A pulse is sent only while the ledger and the owner's balance have room
\* for the commit of the amount it leads to, so that the caps of the model
\* never hold back the timer.
RoomForPulse(n) ==
    /\ currentCoinUser /= NullRec
    /\ Len(sales) < MaxSales
    /\ LET amount == currentCoinUser.pendingAmount + n
           best == calculateTimeFromRates(rates, sub_vendo_device_rates, amount,
                                          currentCoinUser.clientId)
       IN  /\ best.minutes * SecondsPerMinute <= MaxCredit
           /\ \A u \in users :
                 u.time_remaining + best.minutes * SecondsPerMinute <= MaxCredit
TimedSpecNext ==
    \/ \E k \in OneClient :
          \/ CoinDone(k.clientId, k.ip, k.rawMac)
          \/ \E b \in PlainStart : CoinStart(k.clientId, k.ip, k.rawMac, b[1], b[2], b[3])
    \/ RoomForPulse(1) /\ HardwarePulse(1)
    \/ Elapse
    \/ CoinTimerFires
TimedSpec ==
    /\ Init
    /\ [][TimedSpecNext]_vars
    /\ WF_vars(Elapse)
    /\ WF_vars(CoinTimerFires)

\* LedgerSpec: every writer of table sales: the session commits of one
\* device, the coins reported for another MAC and the factory reset of the
\* admin panel
LedgerSpecNext ==
    \/ CoinNext(OneClient, PlainStart, {1})
    \/ InsertNext(OneClient, 1..MaxPending, {"m2"})
    \/ \E k \in OneClient : FactoryReset(k.clientId, k.ip, k.rawMac)
LedgerSpec == Init /\ [][LedgerSpecNext]_vars

\* StartupSpec: the process starts on a users table left by an earlier run,
\* with an empty firewall; the server listens while the services start
StoredUser1 ==
    {UserRow(1, "m1", "ip1", "c1", t, 1) : t \in {0, SecondsPerMinute}}
      \cup {[UserRow(1, "m1", "ip1", "c1", SecondsPerMinute, 1)
               EXCEPT !.is_paused = 1, !.is_connected = 0]}
StoredUser2 ==
    {UserRow(2, "m2", ip, "7", SecondsPerMinute, 2) : ip \in {Null, "ip2"}}
StoredTables ==
    {{u1, u2} : u1 \in StoredUser1, u2 \in StoredUser2}
      \cup {{u} : u \in StoredUser1 \cup StoredUser2}

StartupInit ==
    /\ rates = RatesSmall
    /\ sub_vendo_device_rates = NoDeviceRates
    /\ sub_vendo_devices = {"A"}
    /\ last_active_at = "registered"
    /\ users \in StoredTables
    /\ access_control = [m \in MACs |-> NoBanRecord]
    /\ currentCoinUser = NullRec
    /\ coinTimeout = 0
    /\ tickPc = "idle"
    /\ tickDelta = 0
    /\ tickUsers = <<>>
    /\ tickIdx = 0
    /\ lastTickLag = 0
    /\ authorized = {}
    /\ sales = <<>>
    /\ coinClock = 0
    /\ coinAge = 0
    /\ relay = "unset"
    /\ planIn = NullRec
    /\ planOut = NullRec
    /\ bootPc = "init"
    /\ bootUsers = <<>>
    /\ allowPending = {}
    /\ roamPending = NullRec

StartupSpecNext ==
    \/ BootSelect
    \/ BootRestore
    \/ \E k \in TwoClients :
          \/ PortalRequest(k.clientId, k.ip, k.rawMac)
          \/ SessionPause(k.clientId, k.ip, k.rawMac)
          \/ SessionResume(k.clientId, k.ip, k.rawMac)
StartupSpec == StartupInit /\ [][StartupSpecNext]_vars

\* RoamSpec: three requests of two devices, one cookie seen on two MACs,
\* with portal requests, pause, resume and coin commits
RoamClients ==
    {Client("c1", "ip1", "M1"), Client("7", "ip1", "m2"), Client("c1", "ip2", "m2")}
RoamSpecNext ==
    \/ \E k \in RoamClients :
          \/ PortalRequest(k.clientId, k.ip, k.rawMac)
          \/ SessionPause(k.clientId, k.ip, k.rawMac)
          \/ SessionResume(k.clientId, k.ip, k.rawMac)
    \/ CoinNext(RoamClients, PlainStart, {1})
RoamSpec == PlainInit /\ [][RoamSpecNext]_vars

\* CommitSpec: the coin session with the commit of /api/coin/done split at
\* its await, so that starts and pulses run while a commit is completing
CommitSpecNext ==
    \/ \E k \in TwoClients :
          \/ CoinDoneBegins(k.clientId, k.ip, k.rawMac)
          \/ \E b \in PlainStart : CoinStart(k.clientId, k.ip, k.rawMac, b[1], b[2], b[3])
    \/ \E n \in PulseCounts : HardwarePulse(n)
    \/ \E m \in MACs : CommitAllows(m)
CommitSpec == CoinInit /\ [][CommitSpecNext]_vars

\* RaceSpec: the requests and the timer that can end a session, each commit
\* split at its await, so that a second Done or the timer runs while the
\* first commit is waiting
RaceSpecNext ==
    \/ \E k \in TwoClients :
          \/ CoinDoneBegins(k.clientId, k.ip, k.rawMac)
          \/ \E b \in PlainStart : CoinStart(k.clientId, k.ip, k.rawMac, b[1], b[2], b[3])
    \/ CoinTimeoutBegins
    \/ \E n \in PulseCounts : HardwarePulse(n)
    \/ \E m \in MACs : CommitAllows(m)
RaceSpec == CoinInit /\ [][RaceSpecNext]_vars

\* ClaimSpec: a stored users table with a user that paid as m1 and an
\* expired record on m2; requests that claim a MAC are split at their
\* await, with coin sessions and commits running in between
ExpiredUser2 ==
    {[UserRow(2, "m2", ip, "7", 0, 2) EXCEPT !.is_connected = 0] : ip \in {Null, "ip2"}}
ClaimTables == {{u1, u2} : u1 \in StoredUser1, u2 \in ExpiredUser2}
ClaimInit ==
    /\ rates = RatesSmall
    /\ sub_vendo_device_rates = NoDeviceRates
    /\ sub_vendo_devices = {"A"}
    /\ last_active_at = "registered"
    /\ users \in ClaimTables
    /\ access_control = [m \in MACs |-> NoBanRecord]
    /\ currentCoinUser = NullRec
    /\ coinTimeout = 0
    /\ tickPc = "idle"
    /\ tickDelta = 0
    /\ tickUsers = <<>>
    /\ tickIdx = 0
    /\ lastTickLag = 0
    /\ authorized = {}
    /\ sales = <<>>
    /\ coinClock = 0
    /\ coinAge = 0
    /\ relay = "unset"
    /\ planIn = NullRec
    /\ planOut = NullRec
    /\ bootPc = "done"
    /\ bootUsers = <<>>
    /\ allowPending = {}
    /\ roamPending = NullRec
ClaimSpecNext ==
    \/ \E k \in RoamClients :
          \/ RoamBegins(k.clientId, k.ip, k.rawMac)
          \/ PortalRequest(k.clientId, k.ip, k.rawMac)
    \/ RoamCompletes
    \/ CoinNext(RoamClients, PlainStart, {1})
ClaimSpec == ClaimInit /\ [][ClaimSpecNext]_vars

(***************************************************************************)
(* PlanSpec: the planner applied to bounded inputs                         *)
(***************************************************************************)
PlanInit ==
    /\ rates \in PlanRateTables
    /\ sub_vendo_device_rates \in DeviceRateConfigs
    /\ planIn \in [amount : 0..MaxPlanAmount, deviceId : ClientIds]
    /\ planOut = NullRec
    /\ sub_vendo_devices = {}
    /\ last_active_at = "registered"
    /\ bootPc = "done"
    /\ bootUsers = <<>>
    /\ allowPending = {}
    /\ roamPending = NullRec
    /\ users = {}
    /\ access_control = [m \in MACs |-> NoBanRecord]
    /\ currentCoinUser = NullRec
    /\ coinTimeout = 0
    /\ tickPc = "idle"
    /\ tickDelta = 0
    /\ tickUsers = <<>>
    /\ tickIdx = 0
    /\ lastTickLag = 0
    /\ authorized = {}
    /\ sales = <<>>
    /\ coinClock = 0
    /\ coinAge = 0
    /\ relay = "unset"

PlanCall ==
    /\ planOut = NullRec
    /\ planOut' = calculateTimeFromRates(rates, sub_vendo_device_rates,
                                         planIn.amount, planIn.deviceId)
    /\ UNCHANGED <<rates, sub_vendo_device_rates, planIn, sub_vendo_devices, users,
                   access_control, coinVars, tickVars, authorized, sales,
                   last_active_at, bootVars, allowPending, roamPending>>

PlanNext == PlanCall

PlanSpec == PlanInit /\ [][PlanNext]_vars

(***************************************************************************)
(* Properties of the planner (PlanSpec)                                    *)
(***************************************************************************)
\* The rows visible to the planner call under test
PlanVisible == PlannerRates(rates, planIn.deviceId, sub_vendo_device_rates)

RECURSIVE ComboSum(_, _, _)
ComboSum(count, S, field) ==
    IF S = {} THEN 0
    ELSE LET r == CHOOSE x \in S : TRUE
         IN  count[r] * r[field] + ComboSum(count, S \ {r}, field)

\* The multisets of lines of rs whose amounts sum exactly to a
ExactCombos(rs, a) == {count \in [rs -> 0..a] : ComboSum(count, rs, "amount") = a}

\* The largest total of minutes over ExactCombos(rs, a), which is not empty
MaxExactMinutes(rs, a) ==
    LET totals == {ComboSum(count, rs, "minutes") : count \in ExactCombos(rs, a)}
    IN  CHOOSE t \in totals : \A q \in totals : t >= q

\* C6: for every amount and every rate table that admits a combination of
\* lines summing exactly to the amount, the plan that credits a coin session
\* has the maximum total of minutes over all such combinations.
C6_PlanIsMaximal ==
    (planOut /= NullRec /\ ExactCombos(PlanVisible, planIn.amount) /= {})
        => planOut.minutes = MaxExactMinutes(PlanVisible, planIn.amount)

\* The table {1 -> 1, 5 -> 7, 10 -> 15} was planned for the amount 13
PlanOf13OnS1 ==
    /\ planOut /= NullRec
    /\ rates = RatesS1
    /\ PlanVisible = RatesS1
    /\ planIn.amount = 13

\* C7 (as stated): with the rate table {1 -> 1, 5 -> 7, 10 -> 15}, the plan
\* for the amount 13 has 19 minutes.
C7_Plan13Is19 == PlanOf13OnS1 => planOut.minutes = 19

\* C7 (amended): with the rate table {1 -> 1, 5 -> 7, 10 -> 15}, the plan for
\* the amount 13 has 18 minutes (10 + 1 + 1 + 1), and no combination of lines
\* summing to 13 has more.
C7_Plan13Is18 ==
    PlanOf13OnS1 => /\ planOut.minutes = 18
                    /\ MaxExactMinutes(RatesS1, 13) = 18

C7_Witness == PlanOf13OnS1 /\ planOut.minutes = 18

\* C8: when no combination of lines sums exactly to the amount and the table
\* has no amount = 1 line, the plan has 0 minutes (so that the commit fails
\* and credits nobody).
C8_NoFitNoBaseIsZero ==
    (/\ planOut /= NullRec
     /\ planIn.amount > 0
     /\ ExactCombos(PlanVisible, planIn.amount) = {}
     /\ ~ \E r \in PlanVisible : r.amount = 1)
        => planOut.minutes = 0

(***************************************************************************)
(* Properties of the coin session (CoinSpec, GateSpec)                     *)
(***************************************************************************)
\* C1: there is at most one coin session: while a session is open no session
\* of another owner takes its place, and the one timer is armed exactly while
\* the session is open.
C1_SingleSession ==
    /\ [](currentCoinUser = NullRec <=> coinTimeout = 0)
    /\ [][(currentCoinUser /= NullRec /\ currentCoinUser' /= NullRec)
             => formatMac(currentCoinUser'.mac) = formatMac(currentCoinUser.mac)]_vars

\* A session holding coins is open after an earlier session was committed,
\* and the other MAC is known to the portal.
C1_Witness ==
    /\ currentCoinUser /= NullRec
    /\ currentCoinUser.pendingAmount > 0
    /\ \E u \in users : u.mac_address /= formatMac(currentCoinUser.mac)

\* Client k is not the owner of the open session
OtherOwner(k) ==
    /\ currentCoinUser /= NullRec
    /\ formatMac(k.rawMac) /= Null
    /\ formatMac(k.rawMac) /= formatMac(currentCoinUser.mac)

\* A step in which client k, not the owner of the open session, posts
\* /api/coin/start with body b
StartByOther(k, b) ==
    /\ OtherOwner(k)
    /\ CoinStart(k.clientId, k.ip, k.rawMac, b[1], b[2], b[3])

\* C2 (as stated): a start from another owner than the open session's is
\* answered busy and leaves the session (owner, pending amount, per-source
\* amounts, mode, target, deadline) unchanged.
C2_OtherOwnerBusy ==
    /\ [](\A k \in TwoClients : OtherOwner(k) => CoinStartResult(k.rawMac) = "busy")
    /\ [][\A k \in TwoClients, b \in GateStarts :
             StartByOther(k, b) => UNCHANGED coinVars]_vars

\* C2 (amended): a start from another owner than the open session's is
\* answered busy, or banned when the caller's MAC is banned, and in both
\* cases leaves the session and its deadline unchanged.
C2_OtherOwnerBusyOrBanned ==
    /\ [](\A k \in TwoClients :
             OtherOwner(k) =>
                 CoinStartResult(k.rawMac) =
                     IF IsBanned(formatMac(k.rawMac)) THEN "banned" ELSE "busy")
    /\ [][\A k \in TwoClients, b \in GateStarts :
             StartByOther(k, b) => UNCHANGED coinVars]_vars

\* A session holding coins is open while the other MAC is banned
C2_Witness ==
    /\ currentCoinUser /= NullRec
    /\ currentCoinUser.pendingAmount > 0
    /\ \E m \in MACs : m /= formatMac(currentCoinUser.mac) /\ IsBanned(m)

\* C3: in manual mode with target S, a pulse event from any other source
\* changes neither the pending amount, nor the per-source amounts, nor the
\* deadline.
C3_ManualDropsOtherSources ==
    [][\A n \in PulseCounts, source \in Sources :
          (/\ currentCoinUser /= NullRec
           /\ currentCoinUser.selectionMode = "manual"
           /\ source /= currentCoinUser.targetDeviceId
           /\ CoinPulse(n, source))
              => UNCHANGED coinVars]_vars

\* A manual session targeted at the sub-device holds coins of that source only
C3_Witness ==
    /\ currentCoinUser /= NullRec
    /\ currentCoinUser.selectionMode = "manual"
    /\ currentCoinUser.targetDeviceId = "subvendo:A"
    /\ currentCoinUser.sourceAmounts["subvendo:A"] = MaxPending
    /\ currentCoinUser.sourceAmounts["hardware"] = 0

\* C4: the pending amount of the open session is the sum of its per-source
\* amounts, also after the owner re-opened the session.
C4_PendingIsSum ==
    currentCoinUser /= NullRec
        => currentCoinUser.pendingAmount = SumSourceAmounts(currentCoinUser.sourceAmounts)

\* A session re-opened by its owner: a manual session targeted at the
\* sub-device drops hardware pulses, so a hardware amount in it is the amount
\* carried over by the re-open.
C4_Witness ==
    /\ currentCoinUser /= NullRec
    /\ currentCoinUser.selectionMode = "manual"
    /\ currentCoinUser.targetDeviceId = "subvendo:A"
    /\ currentCoinUser.sourceAmounts["hardware"] > 0
    /\ currentCoinUser.sourceAmounts["subvendo:A"] > 0

\* time_remaining of row id in us, 0 when there is no such row
TimeOfId(us, id) ==
    LET row == FirstRow({u \in us : u.id = id})
    IN  IF row = NullRec THEN 0 ELSE row.time_remaining

\* C5: a step that commits the session with amount A adds to the owner's
\* time_remaining exactly 60 times the minutes of the plan for A, and the
\* time_remaining of no other row changes.
C5_CommitAddsPlanSeconds ==
    [][(/\ currentCoinUser /= NullRec
        /\ currentCoinUser' = NullRec
        /\ currentCoinUser.pendingAmount > 0)
          => LET cs == currentCoinUser
                 plan == calculateTimeFromRates(rates, sub_vendo_device_rates,
                                                cs.pendingAmount, cs.clientId)
                 owner == FirstRow({u \in users' : u.mac_address = formatMac(cs.mac)})
             IN  /\ plan.minutes > 0 =>
                       /\ owner /= NullRec
                       /\ owner.time_remaining =
                              TimeOfId(users, owner.id) + 60 * plan.minutes
                 /\ \A u \in users' :
                       (owner = NullRec \/ u.id /= owner.id)
                           => u.time_remaining = TimeOfId(users, u.id)]_vars

\* A user was credited twice, one minute each time
C5_Witness ==
    /\ currentCoinUser = NullRec
    /\ rates = RatesSmall
    /\ sub_vendo_device_rates = NoDeviceRates
    /\ \E u \in users : u.time_remaining = 60 + 60

(***************************************************************************)
(* Properties of the users table (TickSpec, Spec)                          *)
(***************************************************************************)
\* C9: time_remaining of every user is at least 0, whatever ticks, commits,
\* pauses, resumes and restores have run.
C9_CreditNonNegative == \A u \in users : u.time_remaining >= 0

\* A tick has expired a user while another one keeps credit
C9_Witness ==
    /\ \E u \in users : u.time_remaining = 0 /\ u.is_connected = 0
    /\ \E u \in users : u.time_remaining > 0

\* C10: for every IP address, at most one user with time_remaining > 0 has
\* that ip_address.
C10_OneActiveUserPerIp ==
    \A x \in IPs :
        Cardinality({u \in users : u.ip_address = x /\ u.time_remaining > 0}) <= 1

(***************************************************************************)
(* Properties of the firewall (TickSpec)                                   *)
(***************************************************************************)
\* ids of the rows of a snapshot
SnapshotIds(snapshot) == {snapshot[i].id : i \in 1..Len(snapshot)}

\* C11: once a user's time_remaining is 0 and a further tick has run, the
\* user's MAC is not authorized: at the end of a tick, no user whose balance
\* was 0 when the tick read its snapshot, and still is, has its MAC in the
\* firewall's set of authorized MACs.
C11_ExpiredNotAuthorized ==
    [][(tickPc /= "idle" /\ tickPc' = "idle")
          => \A u \in users' :
                (/\ u.time_remaining = 0
                 /\ u.id \notin SnapshotIds(tickUsers)
                 /\ \E v \in users : v.id = u.id /\ v.time_remaining = 0)
                    => u.mac_address \notin authorized']_vars

(***************************************************************************)
(* Properties of the sales ledger (LedgerSpec)                             *)
(***************************************************************************)
RECURSIVE SumAmounts(_)
SumAmounts(rows) ==
    IF rows = <<>> THEN 0 ELSE rows[1].amount + SumAmounts(Tail(rows))

\* No row of the ledger is removed or modified, and its total does not fall
LedgerGrows ==
    /\ Len(sales') >= Len(sales)
    /\ SubSeq(sales', 1, Len(sales)) = sales
    /\ SumAmounts(sales') >= SumAmounts(sales)

\* C12 (as stated): the sales ledger is append-only: no step removes or
\* modifies a row, and the total of the amounts never decreases.
C12_LedgerAppendOnly == [][LedgerGrows]_vars

\* C12 (amended): the sales ledger is append-only and its total never
\* decreases under every operation except the factory reset of the admin
\* panel, which deletes every row of the ledger together with every user.
C12_LedgerAppendOnlyButReset ==
    [][LedgerGrows \/ (sales' = <<>> /\ users' = {} /\
                       \E k \in OneClient : FactoryReset(k.clientId, k.ip, k.rawMac))]_vars

\* The ledger holds a row of a session commit followed by a row of a coin
\* reported for another MAC, and a MAC is authorized that has no user row:
\* a factory reset deleted the users that paid earlier.
C12_Witness ==
    /\ Len(sales) = 2
    /\ sales[1].mac_address = "m1"
    /\ sales[2].mac_address = "m2"
    /\ \E m \in authorized : \A u \in users : u.mac_address /= m

(***************************************************************************)
(* Properties of the countdown loop (TickSpec)                             *)
(***************************************************************************)
\* The tick has taken its deltaSeconds from a row before the one it stands at
ChargedSomeRow ==
    \E i \in 1..Len(tickUsers) :
        /\ i < tickIdx
        /\ tickUsers[i].time_remaining > tickDelta
        /\ \E u \in users : u.id = tickUsers[i].id

\* C13: the seconds a tick has taken from a user with more credit than
\* deltaSeconds are never charged again: when a tick that charged a row ends,
\* also by an error part-way through the rows, the next tick counts its
\* deltaSeconds from this tick's `now` (lastTick does not lag behind it).
C13_DeltaChargedOnce ==
    [][(tickPc /= "idle" /\ tickPc' = "idle" /\ ChargedSomeRow)
          => lastTickLag' = 0]_vars

\* The rows of the snapshot a step of the loop goes through: from the row
\* after the awaited one to the row it stops at
RowsOfStep ==
    {i \in 1..Len(tickUsers) :
        /\ i >= (IF tickPc = "block" THEN tickIdx + 1 ELSE tickIdx)
        /\ i <= (IF tickPc' = "block" THEN tickIdx' ELSE Len(tickUsers))}

Rearm ==
    /\ currentCoinUser /= NullRec
    /\ currentCoinUser' /= NullRec
    /\ coinClock' = 0

\* C15: every accepted pulse arms the timer of the open session anew with a
\* delay of 30 s, and unless the timer is armed anew again and again, an
\* open session is eventually finalized and no session is left.
C15_TimerFinalizes ==
    /\ [][(/\ currentCoinUser /= NullRec
           /\ currentCoinUser' /= NullRec
           /\ currentCoinUser'.pendingAmount > currentCoinUser.pendingAmount)
              => coinTimeout' = PulseTimeout /\ coinClock' = 0]_vars
    /\ \/ []<><<Rearm>>_vars
       \/ (currentCoinUser /= NullRec) ~> (currentCoinUser = NullRec /\ coinTimeout = 0)

\* A session holding a coin has waited out the 30 s of its last pulse
C15_Witness ==
    /\ currentCoinUser /= NullRec
    /\ currentCoinUser.pendingAmount > 0
    /\ coinTimeout = PulseTimeout
    /\ coinClock = coinTimeout

\* C16: a coin session is finalized no later than 60 s after the start that
\* opened it, also when pulses keep arriving: no session is open more than
\* 60 s after its last accepted start.
C16_FinalizedWithin60 ==
    currentCoinUser /= NullRec => coinAge <= StartTimeout

(***************************************************************************)
(* Properties of the end of a coin session (LedgerSpec, CoinSpec)          *)
(***************************************************************************)
\* A step that ends the open session
SessionEnds == currentCoinUser /= NullRec /\ currentCoinUser' = NullRec

\* The users table and the firewall are as the step's request found them:
\* untouched when the timer ended the session, and as the middleware alone
\* leaves them when the owner's POST /api/coin/done did
OnlyMiddlewareActed ==
    \/ users' = users /\ authorized' = authorized
    \/ \E k \in TwoClients :
          /\ formatMac(k.rawMac) = formatMac(currentCoinUser.mac)
          /\ users' = Middleware(users, k.clientId, k.ip, k.rawMac).users
          /\ authorized' = MiddlewareFirewall(authorized, users, k.clientId, k.ip, k.rawMac)

\* C17: ending a session whose pendingAmount is 0, by Done or by the timer,
\* succeeds with zero seconds added, writes no sales row, creates or changes
\* no user, allows no MAC, and leaves no session and no timer.
C17_EmptySessionIsNoOp ==
    /\ []((currentCoinUser /= NullRec /\ currentCoinUser.pendingAmount = 0)
            => LET f == finalizeCoinSession(users, currentCoinUser)
               IN  f.success /\ f.secondsAdded = 0 /\ f.users = users
                   /\ f.sales = <<>> /\ ~f.allowed)
    /\ [][(SessionEnds /\ currentCoinUser.pendingAmount = 0)
            => /\ sales' = sales
               /\ OnlyMiddlewareActed
               /\ coinTimeout' = 0]_vars

\* A session without coins is open for a device that holds credit from an
\* earlier commit
C17_Witness ==
    /\ currentCoinUser /= NullRec
    /\ currentCoinUser.pendingAmount = 0
    /\ sales /= <<>>
    /\ \E u \in users : u.mac_address = formatMac(currentCoinUser.mac) /\ u.time_remaining > 0

\* C18: when the owner of the open session posts /api/coin/start again (the
\* step of an open session that arms the 60 s timer), the session keeps the
\* pendingAmount it had, and while a session is open its pendingAmount
\* changes only by the count of an accepted pulse:
\* the amount committed is the sum of the pulses accepted before and after
\* the re-open.
C18_ReopenKeepsPending ==
    /\ [][(/\ currentCoinUser /= NullRec
           /\ currentCoinUser' /= NullRec
           /\ coinTimeout' = StartTimeout
           /\ coinTimeout /= StartTimeout \/ currentCoinUser' /= currentCoinUser)
             => currentCoinUser'.pendingAmount = currentCoinUser.pendingAmount]_vars
    /\ [][(currentCoinUser /= NullRec /\ currentCoinUser' /= NullRec)
             => \/ currentCoinUser'.pendingAmount = currentCoinUser.pendingAmount
                \/ \E n \in PulseCounts, source \in Sources :
                      /\ PulseAccepted(currentCoinUser, source)
                      /\ currentCoinUser' =
                             handleCoinPulseEvent(currentCoinUser, n, source)
                      /\ currentCoinUser'.pendingAmount =
                             currentCoinUser.pendingAmount + n]_vars

\* A session re-opened by its owner holds what it held: a manual session
\* targeted at the sub-device drops hardware pulses, so its hardware amount
\* is the sum of the pulses accepted before the re-open.
C18_Witness ==
    /\ currentCoinUser /= NullRec
    /\ currentCoinUser.selectionMode = "manual"
    /\ currentCoinUser.targetDeviceId = "subvendo:A"
    /\ currentCoinUser.pendingAmount = MaxPending
    /\ currentCoinUser.sourceAmounts["hardware"] = MaxPending

\* The open session holds an amount for which the planner finds no time
PlansToNothing ==
    /\ currentCoinUser /= NullRec
    /\ currentCoinUser.pendingAmount > 0
    /\ calculateTimeFromRates(rates, sub_vendo_device_rates,
                              currentCoinUser.pendingAmount,
                              currentCoinUser.clientId).minutes = 0

\* C19: when the credit of a commit cannot be applied (the planner yields no
\* time for the amount), the session keeps its pending amount and stays
\* open: no step ends a session whose amount plans to nothing.
C19_FailedCommitKeepsPending ==
    [][PlansToNothing
          => /\ currentCoinUser' /= NullRec
             /\ currentCoinUser'.pendingAmount >= currentCoinUser.pendingAmount]_vars

\* C20: a commit of an amount > 0 that plans to 0 seconds fails; the sales
\* rows of the commit are written and stay, no user is created or changed
\* and no MAC is allowed.
C20_NoRateKeepsSalesOnly ==
    /\ [](PlansToNothing
            => LET f == finalizeCoinSession(users, currentCoinUser)
               IN  /\ ~f.success /\ f.secondsAdded = 0
                   /\ f.users = users /\ ~f.allowed
                   /\ f.sales /= <<>>
                   /\ SumAmounts(f.sales) = currentCoinUser.pendingAmount)
    /\ [][(PlansToNothing /\ SessionEnds)
            => /\ sales' = sales \o SaleRows(currentCoinUser)
               /\ OnlyMiddlewareActed]_vars

\* The ledger holds the row of a commit that gave no time: one peso on the
\* table without a line for one peso, and no user was created
C20_Witness ==
    /\ rates = RatesSmallNoBase
    /\ currentCoinUser = NullRec
    /\ Len(sales) = 1
    /\ sales[1].amount = 1
    /\ sales[1].mac_address = "m1"
    /\ users = {}
    /\ authorized = {}

(***************************************************************************)
(* Order of the writes of a commit (LedgerSpec)                            *)
(***************************************************************************)
\* The rows a step added to the ledger
NewSales == SubSeq(sales', Len(sales) + 1, Len(sales'))

\* The user rows whose time_remaining a step raised
Credited == {u \in users' : u.time_remaining > TimeOfId(users, u.id)}

CookieUser(k) == FirstRow({u \in users : u.client_id = k.clientId})

\* Request k carries the cookie of an active user whose stored MAC is not
\* the MAC observed
Roams(k) ==
    /\ formatMac(k.rawMac) /= Null
    /\ CookieUser(k) /= NullRec
    /\ CookieUser(k).time_remaining > 0
    /\ CookieUser(k).mac_address /= formatMac(k.rawMac)

\* Another user with credit owns the MAC observed by request k
MacOwnedByActive(k) ==
    \E u \in users : /\ u.mac_address = formatMac(k.rawMac)
                     /\ u.id /= CookieUser(k).id
                     /\ u.time_remaining > 0

\* What the middleware of request k does to a roaming user: the old MAC is
\* blocked, the row takes the MAC observed and keeps its credit
Reclaimed(k) ==
    LET U1 == CookieUser(k)
        M2 == formatMac(k.rawMac)
        r == Middleware(users, k.clientId, k.ip, k.rawMac)
        fw == MiddlewareFirewall(authorized, users, k.clientId, k.ip, k.rawMac)
    IN  /\ U1.mac_address \notin fw
        /\ r.user.id = U1.id
        /\ \E v \in r.users : /\ v.id = U1.id
                              /\ v.mac_address = M2
                              /\ v.time_remaining = U1.time_remaining

\* C22 (as stated): when a request carries the cookie of an active user U1
\* whose MAC M1 is not the MAC M2 observed, and no other user with credit
\* owns M2, then M1 is deauthorized, U1.mac becomes M2, M2 is authorized and
\* the credit of U1 is unchanged.
C22_RoamingReclaim ==
    \A k \in RoamClients :
        (Roams(k) /\ ~MacOwnedByActive(k))
           => /\ Reclaimed(k)
              /\ formatMac(k.rawMac) \in
                     MiddlewareFirewall(authorized, users, k.clientId, k.ip, k.rawMac)

\* C22 (amended): as above, but M2 is authorized exactly when U1 is not
\* paused; for a paused U1 the MAC moves and M2 stays deauthorized.
C22_RoamingReclaimUnlessPaused ==
    \A k \in RoamClients :
        (Roams(k) /\ ~MacOwnedByActive(k))
           => /\ Reclaimed(k)
              /\ formatMac(k.rawMac) \in
                     MiddlewareFirewall(authorized, users, k.clientId, k.ip, k.rawMac)
                 <=> CookieUser(k).is_paused = 0

\* The user that paid as m1 is the only user, holds MAC m2 on the address of
\* the roaming request, and m2 is authorized while m1 is not
C22_Witness ==
    /\ Len(sales) = 1
    /\ sales[1].mac_address = "m1"
    /\ currentCoinUser = NullRec
    /\ \E u \in users :
          /\ users = {u}
          /\ u.client_id = "c1" /\ u.mac_address = "m2" /\ u.ip_address = "ip2"
          /\ u.time_remaining > 0 /\ u.is_paused = 0
    /\ authorized = {"m2"}

\* Request k carries the cookie of user U1 and is observed on the MAC of
\* another user that has credit
Conflict(k) ==
    /\ formatMac(k.rawMac) /= Null
    /\ CookieUser(k) /= NullRec
    /\ CookieUser(k).mac_address /= formatMac(k.rawMac)
    /\ MacOwnedByActive(k)

\* The request is served as the owner of the MAC observed
ServedAsMacOwner(k) ==
    LET r == Middleware(users, k.clientId, k.ip, k.rawMac)
    IN  /\ r.user /= NullRec
        /\ r.user.id /= CookieUser(k).id
        /\ r.user.mac_address = formatMac(k.rawMac)

\* The firewall rule of the MAC of the cookie's user is as it was
CookieMacRuleKept(k) ==
    LET fw == MiddlewareFirewall(authorized, users, k.clientId, k.ip, k.rawMac)
        M1 == CookieUser(k).mac_address
    IN  M1 \in fw <=> M1 \in authorized

\* C23 (as stated): when a request carries the cookie of user U1 but the
\* MAC observed belongs to another user U2 with credit, the request is
\* served as U2, no field of U1 is changed, and the rule of U1's MAC is
\* neither added nor removed.
C23_RoamingConflict ==
    \A k \in RoamClients :
        Conflict(k)
           => /\ ServedAsMacOwner(k)
              /\ CookieUser(k) \in Middleware(users, k.clientId, k.ip, k.rawMac).users
              /\ CookieMacRuleKept(k)

\* The row of the cookie's user after the middleware of request k, when the
\* request is served as the owner of the MAC: the IP sync of the owner
\* clears the request's address from every other row
CookieUserAfterConflict(k) ==
    LET U1 == CookieUser(k)
        U2 == FirstRow({u \in users : u.mac_address = formatMac(k.rawMac)})
    IN  IF /\ U2.is_paused = 0
           /\ U2.ip_address /= k.ip
           /\ U1.ip_address = k.ip
        THEN [U1 EXCEPT !.ip_address = Null]
        ELSE U1

\* C23 (amended): the request is served as U2 and the rule of U1's MAC is
\* neither added nor removed; no field of U1 is changed except ip_address,
\* which is set to NULL when U1 holds the address of the request and the
\* unpaused U2 is moved to that address.
C23_RoamingConflictClearsIp ==
    \A k \in RoamClients :
        Conflict(k)
           => /\ ServedAsMacOwner(k)
              /\ CookieUserAfterConflict(k)
                     \in Middleware(users, k.clientId, k.ip, k.rawMac).users
              /\ CookieMacRuleKept(k)

\* A request with the cookie of the paused user on m1 came from that user's
\* address ip2 on MAC m2 and was served as the user on m2: that user moved
\* to ip2 and keeps its own cookie; the user on m1 keeps cookie, MAC and
\* credit, stays paused and unauthorized, and lost its address
C23_Witness ==
    \E U1 \in users, U2 \in users :
        /\ U1.client_id = "c1" /\ U1.mac_address = "m1" /\ U1.ip_address = Null
        /\ U1.time_remaining > 0 /\ U1.is_paused = 1
        /\ U2.client_id = "7" /\ U2.mac_address = "m2" /\ U2.ip_address = "ip2"
        /\ U2.time_remaining > 0 /\ U2.is_paused = 0
        /\ authorized = {"m2"}

(***************************************************************************)
(* Pause and resume (TickSpec)                                             *)
(***************************************************************************)
\* The row of req.user in the table that POST /api/session/resume of
\* request k leaves
ResumedRow(k) ==
    LET r == Middleware(users, k.clientId, k.ip, k.rawMac)
    IN  FirstRow({v \in ResumeHandler(r, k.ip) : v.id = r.user.id})

\* Request k comes from a user with credit that has paused
PausedActive(k) ==
    LET r == Middleware(users, k.clientId, k.ip, k.rawMac)
    IN  /\ r.user /= NullRec
        /\ r.user.time_remaining > 0
        /\ r.user.is_paused = 1

\* C24: for a user with credit, pause followed by resume gives the credit
\* the user had (ticks do not charge a paused user), paused = false and
\* connected = true.
C24_PauseResumeRoundTrip ==
    \A k \in OneClient :
        PausedActive(k)
           => /\ ResumedRow(k).time_remaining = CookieUser(k).time_remaining
              /\ ResumedRow(k).is_paused = 0
              /\ ResumedRow(k).is_connected = 1

\* C25: in every reachable state, a user that is paused is not connected,
\* whatever pauses, resumes, portal requests, commits, restores and ticks
\* have run.
C25_PausedNotConnected ==
    \A u \in users : u.is_paused = 1 => u.is_connected = 0

\* A user with credit is paused, not connected and not authorized while a
\* tick is running and another user was credited by a reported coin
C25_Witness ==
    /\ tickPc /= "idle"
    /\ \E u \in users :
          /\ u.is_paused = 1 /\ u.is_connected = 0 /\ u.time_remaining > 0
          /\ u.mac_address \notin authorized
    /\ \E u \in users : u.mac_address = "m2" /\ u.is_paused = 0

(***************************************************************************)
(* The fail-attempt gate (GateSpec)                                        *)
(***************************************************************************)
\* A step opens a session, or re-opens it for its owner after a pulse
SessionOpens ==
    /\ currentCoinUser' /= NullRec
    /\ \/ currentCoinUser = NullRec
       \/ coinTimeout = PulseTimeout /\ coinTimeout' = StartTimeout

\* C26: the failed redeem that brings the failure count of a MAC to
\* ban_counter bans the MAC; while the MAC is banned every redeem and every
\* coin start from it is turned away as banned: nothing is redeemed, no
\* session is opened and the count is unchanged; a successful redeem sets
\* the count to 0 and clears the ban.
C26_FailAttemptGate ==
    /\ [](\A m \in MACs :
            LET failed == RedeemAccess(access_control, m, FALSE)[m]
                passed == RedeemAccess(access_control, m, TRUE)[m]
            IN  IF IsBanned(m)
                THEN /\ failed = access_control[m] /\ passed = access_control[m]
                     /\ \A k \in TwoClients : formatMac(k.rawMac) = m
                            => CoinStartResult(k.rawMac) = "banned"
                ELSE /\ failed.failed_attempts = access_control[m].failed_attempts + 1
                     /\ failed.banned <=> failed.failed_attempts >= BanCounter
                     /\ passed.failed_attempts = 0 /\ ~passed.banned)
    /\ [][/\ SessionOpens => ~IsBanned(formatMac(currentCoinUser'.mac))
          /\ \A m \in MACs : IsBanned(m) =>
                 access_control'[m].failed_attempts = access_control[m].failed_attempts]_vars

\* m1 redeemed a voucher and then failed ban_counter times: it is banned,
\* still authorized by the redeem, and no coin was ever committed; the other
\* MAC holds the open session
C26_Witness ==
    /\ IsBanned("m1")
    /\ access_control["m1"].failed_attempts = BanCounter
    /\ "m1" \in authorized
    /\ sales = <<>>
    /\ currentCoinUser /= NullRec
    /\ formatMac(currentCoinUser.mac) = "m2"

(***************************************************************************)
(* The key of the sub-devices (CoinSpec)                                   *)
(***************************************************************************)
\* The keys a request may carry: the configured one, another one, none
RequestKeys == {SubVendoKey, "bad", Null}

ActiveAuthorized ==
    \A u \in users :
        (u.time_remaining > 0 /\ u.is_paused = 0) => u.mac_address \in authorized

\* A step of a portal request: the startup code did not move
RequestStep == bootPc' = bootPc /\ bootUsers' = bootUsers

\* C28: on startup every user with credit that is not paused has been
\* authorized before the first portal request is processed: a portal
\* request never acts on a state in which such a user is not authorized.
C28_RestoredBeforeRequests ==
    [][RequestStep => ActiveAuthorized]_vars

(***************************************************************************)
(* Pulses around Done (CommitSpec)                                         *)
(***************************************************************************)
\* The pending amount of the open session, 0 when there is none
PendingNow == IF currentCoinUser = NullRec THEN 0 ELSE currentCoinUser.pendingAmount

\* C29: the pulses taken before Done is processed are in the amount
\* committed; a pulse that arrives after Done is processed and before the
\* commit has completed is dropped: no pending amount, no credit and no
\* sales row grows by it.
C29_PulseAroundDone ==
    /\ [][(SessionEnds /\ currentCoinUser.pendingAmount > 0)
            => SumAmounts(NewSales) = currentCoinUser.pendingAmount]_vars
    /\ [][(allowPending /= {} /\ allowPending' = allowPending)
            => /\ PendingNow' <= PendingNow
               /\ sales' = sales
               /\ \A u \in users' : u.time_remaining <= TimeOfId(users, u.id)]_vars

(***************************************************************************)
(* Ticks and commits on one user (TickSpec)                                *)
(***************************************************************************)
\* The running tick resumes: it writes rows of its snapshot
TickWrites == tickPc \in {"loop", "block"} /\ tickVars' /= tickVars

\* C30: a tick does not lose the credit of a commit it interleaves with:
\* when a row holds more than the tick's snapshot of it (seconds were
\* committed after the snapshot was read), the write of the tick leaves the
\* row with what it holds less the seconds of the tick, not less.
C30_TickKeepsCommitted ==
    [][TickWrites
         => \A i \in 1..Len(tickUsers) :
               LET id == tickUsers[i].id
                   held == TimeOfId(users, id)
               IN  (held > tickUsers[i].time_remaining
                      /\ TimeOfId(users', id) /= held)
                     => TimeOfId(users', id) >= held - tickDelta]_vars

(***************************************************************************)
(* Order of the firewall calls of one user (TickSpec)                      *)
(***************************************************************************)
\* The awaited blockUser of the row the tick expired completes in this step
TickBlockCompletes == tickPc = "block" /\ tickVars' /= tickVars

\* C31: the firewall calls of a user take effect in the order of the writes
\* that caused them: the blockUser issued for an expiry does not complete
\* after the allowUser of a later commit, so when it completes the user is
\* not left with credit, unpaused and without its rule.
C31_BlockNotAfterCommit ==
    [][TickBlockCompletes
         => \A u \in users' :
               (/\ u.mac_address = tickUsers[tickIdx].mac_address
                /\ u.time_remaining > 0
                /\ u.is_paused = 0)
                  => u.mac_address \in authorized']_vars

(***************************************************************************)
(* Speeds of a plan (PlanSpec)                                             *)
(***************************************************************************)
\* The lines the greedy loop takes at least once, from row i on.
RECURSIVE LinesUsed(_, _, _)
LinesUsed(sorted, i, remainingAmount) ==
    IF i > Len(sorted) THEN {}
    ELSE LET rate == sorted[i] IN
         IF remainingAmount >= rate.amount
         THEN {rate} \cup LinesUsed(sorted, i + 1, remainingAmount % rate.amount)
         ELSE LinesUsed(sorted, i + 1, remainingAmount)

PlanLinesUsed == LinesUsed(SortRatesDesc(PlanVisible), 1, planIn.amount)

MaxOf(S) == CHOOSE x \in S : \A y \in S : x >= y

\* C32: the upload and the download speed of a plan are each the maximum of
\* that speed over all the rate lines the plan uses, for every amount and
\* every rate table.
C32_PlanSpeedsAreMax ==
    (planOut /= NullRec /\ PlanLinesUsed /= {})
        => /\ planOut.upload_speed = MaxOf({r.upload_speed : r \in PlanLinesUsed})
           /\ planOut.download_speed = MaxOf({r.download_speed : r \in PlanLinesUsed})

(***************************************************************************)
(* The source of a commit (CoinSpec)                                       *)
(***************************************************************************)
\* The one source all the coins of a session came from, Null when mixed
SessionSource(cs) ==
    IF cs.sourceAmounts["subvendo:A"] = cs.pendingAmount THEN "subvendo:A"
    ELSE IF cs.sourceAmounts["hardware"] = cs.pendingAmount THEN "hardware"
    ELSE Null

\* The row of sub_vendo_devices that stands for a source, Null for the local slot
SourceRow(source) == IF source = "subvendo:A" THEN SubVendoRowId("A") ELSE Null

\* The row of sub_vendo_devices whose bandwidth settings a commit reads
OverrideRow(cs) == IF cs.clientId \in NumericIds THEN cs.clientId ELSE Null

\* C33: a commit plans with the rate lines of the source the coins came from
\* (the visible lines of a remote source that has any, else the full table)
\* and reads the bandwidth override of that source, and of no other device.
C33_CommitUsesSourceLines ==
    [][(/\ currentCoinUser /= NullRec
        /\ currentCoinUser' = NullRec
        /\ currentCoinUser.pendingAmount > 0
        /\ SessionSource(currentCoinUser) /= Null)
          => LET cs == currentCoinUser
                 plan == calculateTimeFromRates(rates, sub_vendo_device_rates,
                                                cs.pendingAmount,
                                                SourceRow(SessionSource(cs)))
                 owner == FirstRow({u \in users' : u.mac_address = formatMac(cs.mac)})
             IN  /\ OverrideRow(cs) = SourceRow(SessionSource(cs))
                 /\ plan.minutes > 0 =>
                       /\ owner /= NullRec
                       /\ owner.time_remaining =
                              TimeOfId(users, owner.id) + 60 * plan.minutes]_vars

(***************************************************************************)
(* The cookie bound by the MAC lookup (RoamSpec)                           *)
(***************************************************************************)
\* The user that holds the MAC observed by request k
MacUser(k) == FirstRow({u \in users : u.mac_address = formatMac(k.rawMac)})

\* The cookie of request k matches no user and its MAC is the MAC of a user
FoundByMacOnly(k) ==
    /\ formatMac(k.rawMac) /= Null
    /\ CookieUser(k) = NullRec
    /\ MacUser(k) /= NullRec

\* C34: when the cookie of a request matches no user and the user is found
\* by MAC, the request binds its cookie to the user only if the user has no
\* client_id; a client_id that is not null is left as it is.
C34_MacLookupKeepsClientId ==
    \A k \in RoamClients :
        (FoundByMacOnly(k) /\ MacUser(k).client_id /= Null)
           => \E v \in Middleware(users, k.clientId, k.ip, k.rawMac).users :
                 /\ v.id = MacUser(k).id
                 /\ v.client_id = MacUser(k).client_id

(***************************************************************************)
(* The relay of the local slot (CoinSpec)                                  *)
(***************************************************************************)
\* C35: while a session is open the relay is energized exactly when its
\* mode is auto or its manual target is the local slot; the step that ends a
\* session de-energizes it; and whenever no session is open the relay is not
\* energized (it is de-energized once a first start was accepted).
C35_RelayFollowsSession ==
    /\ [](currentCoinUser /= NullRec
            => (relay = "on" <=> \/ currentCoinUser.selectionMode = "auto"
                                 \/ currentCoinUser.targetDeviceId = "hardware"))
    /\ [](currentCoinUser /= NullRec => relay \in {"on", "off"})
    /\ [][(currentCoinUser /= NullRec /\ currentCoinUser' = NullRec)
             => relay' = "off"]_vars
    /\ [](currentCoinUser = NullRec => relay /= "on")
    /\ [][relay /= "unset" => relay' /= "unset"]_vars

\* A session that energized the relay was committed: no session is open, its
\* sale is in the ledger and the relay is de-energized
C35_Witness ==
    /\ currentCoinUser = NullRec
    /\ relay = "off"
    /\ \E i \in 1..Len(sales) : sales[i].source = "hardware"

(***************************************************************************)
(* The source of the sales rows (CoinSpec)                                 *)
(***************************************************************************)
\* The total of the rows of a piece of the ledger that name source X
RECURSIVE SumOfSource(_, _)
SumOfSource(rows, X) ==
    IF rows = <<>> THEN 0
    ELSE (IF Head(rows).source = X THEN Head(rows).amount ELSE 0)
         + SumOfSource(Tail(rows), X)

\* C36: the sales rows of a commit that name source X sum to the amount of
\* the accepted pulses that came from X during the session: a session opens
\* with nothing attributed, what is attributed to a source is never taken
\* from it while the session stays open (a re-open of the owner included),
\* and the commit writes for every source the amount attributed to it.
C36_SalesFollowSources ==
    /\ [][(currentCoinUser = NullRec /\ currentCoinUser' /= NullRec)
             => \A X \in Sources : currentCoinUser'.sourceAmounts[X] = 0]_vars
    /\ [][(currentCoinUser /= NullRec /\ currentCoinUser' /= NullRec)
             => \A X \in Sources :
                   currentCoinUser'.sourceAmounts[X] >= currentCoinUser.sourceAmounts[X]]_vars
    /\ [][SessionEnds
             => \A X \in Sources :
                   SumOfSource(NewSales, X) = currentCoinUser.sourceAmounts[X]]_vars

(***************************************************************************)
(* One commit per session (RaceSpec)                                       *)
(***************************************************************************)
\* C37: the amount of a session is committed at most once.  A step writes
\* sales rows or adds credit only if it ends the open session, and then it
\* writes exactly the amount of that session; with the session gone, a
\* second Done and the timer find no session and write nothing.
C37_CommittedOnce ==
    /\ [][(sales' /= sales \/ Credited /= {})
             => /\ SessionEnds
                /\ SubSeq(sales', 1, Len(sales)) = sales
                /\ SumAmounts(NewSales) = currentCoinUser.pendingAmount]_vars
    /\ [][currentCoinUser = NullRec
             => sales' = sales /\ Credited = {}]_vars

\* The Done of m1 has committed one peso and waits for the firewall: the
\* session is gone, the row is in the ledger and the credit is written,
\* while a second Done or the timer may still run
C37_Witness ==
    /\ currentCoinUser = NullRec
    /\ allowPending = {"m1"}
    /\ Len(sales) = 1
    /\ sales[1].amount = 1
    /\ \E u \in users : u.mac_address = "m1" /\ u.time_remaining = 60

(***************************************************************************)
(* Records deleted by identity resolution (ClaimSpec)                      *)
(***************************************************************************)
\* The rows of the table that a step removes
DeletedRows == {u \in users : \A v \in users' : v.id /= u.id}

\* C38: identity resolution never destroys a user that holds credit: the
\* record a request deletes on the MAC it claims has time_remaining = 0 at
\* the moment it is deleted, whatever commits ran in between.
C38_NoCreditDestroyed ==
    [][\A u \in DeletedRows : u.time_remaining = 0]_vars

(***************************************************************************)
(* One user per cookie (RoamSpec)                                          *)
(***************************************************************************)
\* C39: no two rows of table users hold the same client_id that is not
\* null, whatever portal requests and coin commits have run.
C39_ClientIdUnique ==
    \A u, v \in users :
        (u.id /= v.id /\ u.client_id /= Null) => u.client_id /= v.client_id

(***************************************************************************)
(* Refused restores (TickSpec)                                             *)
(***************************************************************************)
\* The table and the firewall as the middleware of request k leaves them
\* for the handler of POST /api/session/restore
RestoreFinds(k) ==
    [users |-> Middleware(users, k.clientId, k.ip, k.rawMac).users,
     authorized |-> MiddlewareFirewall(authorized, users, k.clientId, k.ip, k.rawMac)]

\* C40: a restore that answers conflict, expired or invalid leaves every
\* row of table users (its MAC and client_id included) and the set of
\* authorized MACs as it found them.
C40_RefusedRestoreChangesNothing ==
    \A k \in Clients, b \in RestoreBodies :
        LET found == RestoreFinds(k)
            h == RestoreHandler(found.users, b[1], b[2], k.ip, formatMac(k.rawMac))
        IN  h.result \in {"conflict", "expired", "invalid"}
              => /\ h.users = found.users
                 /\ RestoreFirewall(found.authorized, found.users, b[1], b[2],
                                    formatMac(k.rawMac)) = found.authorized

====
